---- MODULE Spec2Model ----
(***************************************************************************)
(* zkArcade: the turn-resolution state machines of the Battleship and the  *)
(* Wordle contracts (contracts/battleship, contracts/wordle).              *)
(*                                                                         *)
(* Every contract entry point is one atomic transaction.  It is modelled   *)
(* as an operator from the stored session and the call's arguments to an   *)
(* outcome record                                                          *)
(*    [err, game, verifier, hub, ret, order, player1_won]                  *)
(* err      "Ok", the contract error returned, or "Panic" when a cross-    *)
(*          contract call traps and the host rolls the transaction back;   *)
(* game     the session record in storage after the call;                  *)
(* verifier TRUE iff the verifier contract was invoked;                    *)
(* hub      "none", "start" or "end": the hub entry point invoked;         *)
(* ret      the value returned on success;                                 *)
(* order    the external effects in the order the code performs them:      *)
(*          "verify" (verifier call), "hub" (hub call), "save" (the        *)
(*          session record is written);                                    *)
(* player1_won  the argument of the hub's end_game, when it is invoked.    *)
(* The action of an entry point applies its operator to the store.         *)
(*                                                                         *)
(* Option<T> is T plus None.  A u128 / u32 bit mask is the set of the      *)
(* indexes of its set bits.  keccak256 is taken to be injective, so a      *)
(* digest is represented by the byte fields that are hashed.               *)
(***************************************************************************)
EXTENDS Integers, Sequences, FiniteSets, TLC

\* Option::None of an address, a commitment or a ship type.
None == "None"

\* Option::None of a record (a stored session, a pending move, a returned value).
Absent == [none |-> TRUE]

(* ------------------------------ bounds -------------------------------- *)

\* Misses the resolvers report per defender board.
MaxMisses == 1

\* Entries of a Wordle history (guesses, feedbacks) that differ from the
\* first value of the corresponding input set.
MaxAlt == 1

\* Session identifiers in use.
SessionIds == {1}

\* Three addresses: two that play and an outsider.
Addresses == {"GA", "GB", "GC"}

\* The (player1, player2) / (word_setter, guesser) pairs start_game is called with.
StartPairs == {<<"GA", "GB">>, <<"GA", "GA">>}

\* The stakes passed through to the hub.
Stakes == {100}

\* 32-byte commitments.
Commitments == {"c11", "c22"}

\* sunk_ship arguments: none, the first and last ship type, one past the last.
SunkInputs == {0, 1, 5, 6}

\* Proof payloads: first byte 1 (accepted by the verifier) and first byte 0.
Payloads == {<<1>>, <<0>>}

\* A digest that is the hash of no call (the tests' [9u8; 32]).
WrongHash == <<9>>

\* The addresses whose authorization an invocation carries: nobody's, an
\* outsider's, the two players'.
SignerSets == {{}, {"GC"}, {"GA", "GB"}}

(* --------------------------- collaborators ---------------------------- *)

\* The verifier contract the games are deployed with.
MockVerifier_verify(commitment, public_inputs_hash, proof_payload) ==
    IF Len(proof_payload) = 0 THEN FALSE ELSE proof_payload[1] = 1

(* ===================== Battleship (contracts/battleship) ============== *)

BOARD_SIZE == 10
TOTAL_SHIP_CELLS == 17

Fail(e, g, v) ==
    [err |-> e, game |-> g, verifier |-> v, hub |-> "none", ret |-> Absent,
     order |-> IF v THEN <<"verify">> ELSE <<>>, player1_won |-> FALSE]

Panic(g, v, h) ==
    [err |-> "Panic", game |-> g, verifier |-> v, hub |-> h, ret |-> Absent,
     order |-> (IF v THEN <<"verify">> ELSE <<>>) \o <<"hub">>, player1_won |-> FALSE]

\* coord_to_bit that accepts the coordinate one past the board.
coord_to_bit_offbyone(x, y) ==
    IF x > BOARD_SIZE \/ y > BOARD_SIZE
    THEN [err |-> "InvalidCoordinate", bit |-> 0]
    ELSE [err |-> "Ok", bit |-> y * BOARD_SIZE + x]

coord_to_bit(x, y) ==
    IF x >= BOARD_SIZE \/ y >= BOARD_SIZE
    THEN [err |-> "InvalidCoordinate", bit |-> 0]
    ELSE [err |-> "Ok", bit |-> y * BOARD_SIZE + x]

\* parse_ship_type that reads a value above 5 as "no ship".
parse_ship_type_lax(raw) ==
    CASE raw = 0 -> [err |-> "Ok", ship |-> None]
      [] raw = 1 -> [err |-> "Ok", ship |-> "Carrier"]
      [] raw = 2 -> [err |-> "Ok", ship |-> "Battleship"]
      [] raw = 3 -> [err |-> "Ok", ship |-> "Cruiser"]
      [] raw = 4 -> [err |-> "Ok", ship |-> "Submarine"]
      [] raw = 5 -> [err |-> "Ok", ship |-> "Destroyer"]
      [] OTHER -> [err |-> "Ok", ship |-> None]

parse_ship_type(raw) ==
    CASE raw = 0 -> [err |-> "Ok", ship |-> None]
      [] raw = 1 -> [err |-> "Ok", ship |-> "Carrier"]
      [] raw = 2 -> [err |-> "Ok", ship |-> "Battleship"]
      [] raw = 3 -> [err |-> "Ok", ship |-> "Cruiser"]
      [] raw = 4 -> [err |-> "Ok", ship |-> "Submarine"]
      [] raw = 5 -> [err |-> "Ok", ship |-> "Destroyer"]
      [] OTHER -> [err |-> "InvalidShipType", ship |-> None]

ship_bit(ship) ==
    CASE ship = "Carrier" -> 0
      [] ship = "Battleship" -> 1
      [] ship = "Cruiser" -> 2
      [] ship = "Submarine" -> 3
      [] ship = "Destroyer" -> 4

\* opponent that returns the player itself.
opponent_same(game, player) ==
    IF player = game.player1 THEN [err |-> "Ok", addr |-> game.player1]
    ELSE IF player = game.player2 THEN [err |-> "Ok", addr |-> game.player2]
    ELSE [err |-> "NotPlayer", addr |-> None]

opponent(game, player) ==
    IF player = game.player1 THEN [err |-> "Ok", addr |-> game.player2]
    ELSE IF player = game.player2 THEN [err |-> "Ok", addr |-> game.player1]
    ELSE [err |-> "NotPlayer", addr |-> None]

\* The digest with the coordinates left out of the hashed bytes.
build_public_inputs_hash_internal_nocoord(session_id, defender, shooter, x, y, is_hit, sunk_ship, board_commitment) ==
    <<session_id, 0, 0, IF is_hit THEN 1 ELSE 0, sunk_ship,
      board_commitment, defender, shooter>>

\* The bytes that are hashed: the 17-byte fixed header (session id, x, y as
\* big-endian u32, the hit byte, sunk_ship as big-endian u32), the commitment,
\* the defender's and the shooter's strkey.
build_public_inputs_hash_internal(session_id, defender, shooter, x, y, is_hit, sunk_ship, board_commitment) ==
    <<session_id, x, y, IF is_hit THEN 1 ELSE 0, sunk_ship,
      board_commitment, defender, shooter>>

\* The public utility with the two addresses hashed in the other order.
build_public_inputs_hash_swapped(session_id, defender, shooter, x, y, is_hit, sunk_ship, board_commitment) ==
    build_public_inputs_hash_internal(session_id, shooter, defender, x, y,
                                      is_hit, sunk_ship, board_commitment)

build_public_inputs_hash(session_id, defender, shooter, x, y, is_hit, sunk_ship, board_commitment) ==
    build_public_inputs_hash_internal(session_id, defender, shooter, x, y,
                                      is_hit, sunk_ship, board_commitment)

NewGame(player1, player2, player1_points, player2_points) ==
    [player1 |-> player1, player2 |-> player2,
     player1_points |-> player1_points, player2_points |-> player2_points,
     phase |-> "WaitingForBoards", turn |-> None,
     board_commitment_p1 |-> None, board_commitment_p2 |-> None,
     pending_shot |-> Absent,
     shots_p1_to_p2 |-> {}, shots_p2_to_p1 |-> {},
     hits_on_p1 |-> 0, hits_on_p2 |-> 0,
     sunk_ships_on_p1 |-> {}, sunk_ships_on_p2 |-> {},
     winner |-> None]

\* start_game that stores the session although the hub call failed.
start_game_ignoreshub(stored, session_id, player1, player2, player1_points, player2_points, hubOk) ==
    IF player1 = player2 THEN Fail("SelfPlayNotAllowed", stored, FALSE)
    ELSE IF stored # Absent THEN Fail("GameAlreadyExists", stored, FALSE)
    ELSE [err |-> "Ok",
          game |-> NewGame(player1, player2, player1_points, player2_points),
          verifier |-> FALSE, hub |-> IF hubOk THEN "start" ELSE "none", ret |-> Absent,
          order |-> <<"hub", "save">>, player1_won |-> FALSE]

\* stored: the record under DataKey::Game(session_id), or None.
start_game(stored, session_id, player1, player2, player1_points, player2_points, hubOk) ==
    IF player1 = player2 THEN Fail("SelfPlayNotAllowed", stored, FALSE)
    ELSE IF stored # Absent THEN Fail("GameAlreadyExists", stored, FALSE)
    ELSE IF ~hubOk THEN Panic(stored, FALSE, "start")
    ELSE [err |-> "Ok",
          game |-> NewGame(player1, player2, player1_points, player2_points),
          verifier |-> FALSE, hub |-> "start", ret |-> Absent,
          order |-> <<"hub", "save">>, player1_won |-> FALSE]

\* commit_board without the check for an ended game.
commit_board_noended(stored, session_id, player, board_commitment) ==
    IF stored = Absent THEN Fail("GameNotFound", stored, FALSE)
    ELSE IF stored.phase # "WaitingForBoards" THEN Fail("InvalidPhase", stored, FALSE)
    ELSE IF player = stored.player1 /\ stored.board_commitment_p1 # None
         THEN Fail("BoardAlreadyCommitted", stored, FALSE)
    ELSE IF player # stored.player1 /\ player = stored.player2
            /\ stored.board_commitment_p2 # None
         THEN Fail("BoardAlreadyCommitted", stored, FALSE)
    ELSE IF player # stored.player1 /\ player # stored.player2
         THEN Fail("NotPlayer", stored, FALSE)
    ELSE
      LET g1 == IF player = stored.player1
                THEN [stored EXCEPT !.board_commitment_p1 = board_commitment]
                ELSE [stored EXCEPT !.board_commitment_p2 = board_commitment]
          g2 == IF g1.board_commitment_p1 # None /\ g1.board_commitment_p2 # None
                THEN [g1 EXCEPT !.phase = "InProgress", !.turn = g1.player1]
                ELSE g1
      IN [err |-> "Ok", game |-> g2, verifier |-> FALSE, hub |-> "none", ret |-> Absent,
          order |-> <<"save">>, player1_won |-> FALSE]

\* commit_board that lets a player replace a board already committed.
commit_board_overwrites(stored, session_id, player, board_commitment) ==
    IF stored = Absent THEN Fail("GameNotFound", stored, FALSE)
    ELSE IF stored.phase = "Ended" THEN Fail("GameAlreadyEnded", stored, FALSE)
    ELSE IF stored.phase # "WaitingForBoards" THEN Fail("InvalidPhase", stored, FALSE)
    ELSE IF player # stored.player1 /\ player # stored.player2
         THEN Fail("NotPlayer", stored, FALSE)
    ELSE
      LET g1 == IF player = stored.player1
                THEN [stored EXCEPT !.board_commitment_p1 = board_commitment]
                ELSE [stored EXCEPT !.board_commitment_p2 = board_commitment]
          g2 == IF g1.board_commitment_p1 # None /\ g1.board_commitment_p2 # None
                THEN [g1 EXCEPT !.phase = "InProgress", !.turn = g1.player1]
                ELSE g1
      IN [err |-> "Ok", game |-> g2, verifier |-> FALSE, hub |-> "none", ret |-> Absent,
          order |-> <<"save">>, player1_won |-> FALSE]

\* commit_board that gives the first turn to the player who commits last.
commit_board_turnself(stored, session_id, player, board_commitment) ==
    IF stored = Absent THEN Fail("GameNotFound", stored, FALSE)
    ELSE IF stored.phase = "Ended" THEN Fail("GameAlreadyEnded", stored, FALSE)
    ELSE IF stored.phase # "WaitingForBoards" THEN Fail("InvalidPhase", stored, FALSE)
    ELSE IF player = stored.player1 /\ stored.board_commitment_p1 # None
         THEN Fail("BoardAlreadyCommitted", stored, FALSE)
    ELSE IF player # stored.player1 /\ player = stored.player2
            /\ stored.board_commitment_p2 # None
         THEN Fail("BoardAlreadyCommitted", stored, FALSE)
    ELSE IF player # stored.player1 /\ player # stored.player2
         THEN Fail("NotPlayer", stored, FALSE)
    ELSE
      LET g1 == IF player = stored.player1
                THEN [stored EXCEPT !.board_commitment_p1 = board_commitment]
                ELSE [stored EXCEPT !.board_commitment_p2 = board_commitment]
          g2 == IF g1.board_commitment_p1 # None /\ g1.board_commitment_p2 # None
                THEN [g1 EXCEPT !.phase = "InProgress", !.turn = player]
                ELSE g1
      IN [err |-> "Ok", game |-> g2, verifier |-> FALSE, hub |-> "none", ret |-> Absent,
          order |-> <<"save">>, player1_won |-> FALSE]

commit_board(stored, session_id, player, board_commitment) ==
    IF stored = Absent THEN Fail("GameNotFound", stored, FALSE)
    ELSE IF stored.phase = "Ended" THEN Fail("GameAlreadyEnded", stored, FALSE)
    ELSE IF stored.phase # "WaitingForBoards" THEN Fail("InvalidPhase", stored, FALSE)
    ELSE IF player = stored.player1 /\ stored.board_commitment_p1 # None
         THEN Fail("BoardAlreadyCommitted", stored, FALSE)
    ELSE IF player # stored.player1 /\ player = stored.player2
            /\ stored.board_commitment_p2 # None
         THEN Fail("BoardAlreadyCommitted", stored, FALSE)
    ELSE IF player # stored.player1 /\ player # stored.player2
         THEN Fail("NotPlayer", stored, FALSE)
    ELSE
      LET g1 == IF player = stored.player1
                THEN [stored EXCEPT !.board_commitment_p1 = board_commitment]
                ELSE [stored EXCEPT !.board_commitment_p2 = board_commitment]
          g2 == IF g1.board_commitment_p1 # None /\ g1.board_commitment_p2 # None
                THEN [g1 EXCEPT !.phase = "InProgress", !.turn = g1.player1]
                ELSE g1
      IN [err |-> "Ok", game |-> g2, verifier |-> FALSE, hub |-> "none", ret |-> Absent,
          order |-> <<"save">>, player1_won |-> FALSE]

\* fire without the check that it is the shooter's turn.
fire_anyturn(stored, session_id, shooter, x, y) ==
    IF stored = Absent THEN Fail("GameNotFound", stored, FALSE)
    ELSE IF stored.phase = "Ended" THEN Fail("GameAlreadyEnded", stored, FALSE)
    ELSE IF stored.phase # "InProgress" THEN Fail("InvalidPhase", stored, FALSE)
    ELSE IF stored.pending_shot # Absent THEN Fail("PendingShotExists", stored, FALSE)
    ELSE IF stored.turn = None THEN Fail("InvalidPhase", stored, FALSE)
    ELSE
      LET b == coord_to_bit(x, y) IN
      IF b.err # "Ok" THEN Fail(b.err, stored, FALSE)
      ELSE IF shooter = stored.player1 /\ b.bit \in stored.shots_p1_to_p2
           THEN Fail("ShotAlreadyResolved", stored, FALSE)
      ELSE IF shooter # stored.player1 /\ shooter = stored.player2
              /\ b.bit \in stored.shots_p2_to_p1
           THEN Fail("ShotAlreadyResolved", stored, FALSE)
      ELSE IF shooter # stored.player1 /\ shooter # stored.player2
           THEN Fail("NotPlayer", stored, FALSE)
      ELSE [err |-> "Ok",
            game |-> [stored EXCEPT !.pending_shot = [shooter |-> shooter, x |-> x, y |-> y]],
            verifier |-> FALSE, hub |-> "none", ret |-> Absent,
            order |-> <<"save">>, player1_won |-> FALSE]

\* fire without the check against the shots already resolved.
fire_nodup(stored, session_id, shooter, x, y) ==
    IF stored = Absent THEN Fail("GameNotFound", stored, FALSE)
    ELSE IF stored.phase = "Ended" THEN Fail("GameAlreadyEnded", stored, FALSE)
    ELSE IF stored.phase # "InProgress" THEN Fail("InvalidPhase", stored, FALSE)
    ELSE IF stored.pending_shot # Absent THEN Fail("PendingShotExists", stored, FALSE)
    ELSE IF stored.turn = None THEN Fail("InvalidPhase", stored, FALSE)
    ELSE IF shooter # stored.turn THEN Fail("NotYourTurn", stored, FALSE)
    ELSE IF coord_to_bit(x, y).err # "Ok" THEN Fail(coord_to_bit(x, y).err, stored, FALSE)
    ELSE IF shooter # stored.player1 /\ shooter # stored.player2
         THEN Fail("NotPlayer", stored, FALSE)
    ELSE [err |-> "Ok",
          game |-> [stored EXCEPT !.pending_shot = [shooter |-> shooter, x |-> x, y |-> y]],
          verifier |-> FALSE, hub |-> "none", ret |-> Absent,
          order |-> <<"save">>, player1_won |-> FALSE]

fire(stored, session_id, shooter, x, y) ==
    IF stored = Absent THEN Fail("GameNotFound", stored, FALSE)
    ELSE IF stored.phase = "Ended" THEN Fail("GameAlreadyEnded", stored, FALSE)
    ELSE IF stored.phase # "InProgress" THEN Fail("InvalidPhase", stored, FALSE)
    ELSE IF stored.pending_shot # Absent THEN Fail("PendingShotExists", stored, FALSE)
    ELSE IF stored.turn = None THEN Fail("InvalidPhase", stored, FALSE)
    ELSE IF shooter # stored.turn THEN Fail("NotYourTurn", stored, FALSE)
    ELSE
      LET b == coord_to_bit(x, y) IN
      IF b.err # "Ok" THEN Fail(b.err, stored, FALSE)
      ELSE IF shooter = stored.player1 /\ b.bit \in stored.shots_p1_to_p2
           THEN Fail("ShotAlreadyResolved", stored, FALSE)
      ELSE IF shooter # stored.player1 /\ shooter = stored.player2
              /\ b.bit \in stored.shots_p2_to_p1
           THEN Fail("ShotAlreadyResolved", stored, FALSE)
      ELSE IF shooter # stored.player1 /\ shooter # stored.player2
           THEN Fail("NotPlayer", stored, FALSE)
      ELSE [err |-> "Ok",
            game |-> [stored EXCEPT !.pending_shot = [shooter |-> shooter, x |-> x, y |-> y]],
            verifier |-> FALSE, hub |-> "none", ret |-> Absent,
            order |-> <<"save">>, player1_won |-> FALSE]

\* The gate without the comparison of the two digests.
resolve_shot_gate_nohash(expected_hash, board_commitment, public_inputs_hash, proof_payload) ==
    IF ~MockVerifier_verify(board_commitment, public_inputs_hash, proof_payload)
    THEN [err |-> "InvalidProof", verifier |-> TRUE]
    ELSE [err |-> "Ok", verifier |-> TRUE]

\* resolve_shot, lines 373-397: the proof gate.
resolve_shot_gate(expected_hash, board_commitment, public_inputs_hash, proof_payload) ==
    IF expected_hash # public_inputs_hash
    THEN [err |-> "InvalidPublicInputsHash", verifier |-> FALSE]
    ELSE IF ~MockVerifier_verify(board_commitment, public_inputs_hash, proof_payload)
    THEN [err |-> "InvalidProof", verifier |-> TRUE]
    ELSE [err |-> "Ok", verifier |-> TRUE]

\* The updates without the check that the ship is not sunk already.
resolve_shot_mark_resink(stored, shooter, defender, is_hit, ship, bit) ==
    LET g1 == IF shooter = stored.player1
              THEN [stored EXCEPT !.shots_p1_to_p2 = @ \cup {bit}]
              ELSE [stored EXCEPT !.shots_p2_to_p1 = @ \cup {bit}]
        g2 == IF ~is_hit THEN g1
              ELSE IF defender = g1.player1
              THEN [g1 EXCEPT !.hits_on_p1 = @ + 1]
              ELSE [g1 EXCEPT !.hits_on_p2 = @ + 1]
        sbit == ship_bit(ship)
    IN
    IF is_hit /\ (IF defender = g2.player1 THEN g2.hits_on_p1 ELSE g2.hits_on_p2)
                     > TOTAL_SHIP_CELLS
    THEN [err |-> "TooManyHits", game |-> g2]
    ELSE IF ship = None THEN [err |-> "Ok", game |-> g2]
    ELSE IF defender = g2.player1
    THEN [err |-> "Ok", game |-> [g2 EXCEPT !.sunk_ships_on_p1 = @ \cup {sbit}]]
    ELSE [err |-> "Ok", game |-> [g2 EXCEPT !.sunk_ships_on_p2 = @ \cup {sbit}]]

\* The updates with the hit counter advanced for a miss as well.
resolve_shot_mark_countsmiss(stored, shooter, defender, is_hit, ship, bit) ==
    LET g1 == IF shooter = stored.player1
              THEN [stored EXCEPT !.shots_p1_to_p2 = @ \cup {bit}]
              ELSE [stored EXCEPT !.shots_p2_to_p1 = @ \cup {bit}]
        g2 == IF defender = g1.player1
              THEN [g1 EXCEPT !.hits_on_p1 = @ + 1]
              ELSE [g1 EXCEPT !.hits_on_p2 = @ + 1]
        sbit == ship_bit(ship)
    IN
    IF (IF defender = g2.player1 THEN g2.hits_on_p1 ELSE g2.hits_on_p2) > TOTAL_SHIP_CELLS
    THEN [err |-> "TooManyHits", game |-> g2]
    ELSE IF ship = None THEN [err |-> "Ok", game |-> g2]
    ELSE IF defender = g2.player1
    THEN (IF sbit \in g2.sunk_ships_on_p1 THEN [err |-> "ShipAlreadySunk", game |-> g2]
          ELSE [err |-> "Ok", game |-> [g2 EXCEPT !.sunk_ships_on_p1 = @ \cup {sbit}]])
    ELSE (IF sbit \in g2.sunk_ships_on_p2 THEN [err |-> "ShipAlreadySunk", game |-> g2]
          ELSE [err |-> "Ok", game |-> [g2 EXCEPT !.sunk_ships_on_p2 = @ \cup {sbit}]])

\* The updates with the shot marked in both bitmaps.
resolve_shot_mark_bothmaps(stored, shooter, defender, is_hit, ship, bit) ==
    LET g1 == [stored EXCEPT !.shots_p1_to_p2 = @ \cup {bit},
                             !.shots_p2_to_p1 = @ \cup {bit}]
        g2 == IF ~is_hit THEN g1
              ELSE IF defender = g1.player1
              THEN [g1 EXCEPT !.hits_on_p1 = @ + 1]
              ELSE [g1 EXCEPT !.hits_on_p2 = @ + 1]
        sbit == ship_bit(ship)
    IN
    IF is_hit /\ (IF defender = g2.player1 THEN g2.hits_on_p1 ELSE g2.hits_on_p2)
                     > TOTAL_SHIP_CELLS
    THEN [err |-> "TooManyHits", game |-> g2]
    ELSE IF ship = None THEN [err |-> "Ok", game |-> g2]
    ELSE IF defender = g2.player1
    THEN (IF sbit \in g2.sunk_ships_on_p1 THEN [err |-> "ShipAlreadySunk", game |-> g2]
          ELSE [err |-> "Ok", game |-> [g2 EXCEPT !.sunk_ships_on_p1 = @ \cup {sbit}]])
    ELSE (IF sbit \in g2.sunk_ships_on_p2 THEN [err |-> "ShipAlreadySunk", game |-> g2]
          ELSE [err |-> "Ok", game |-> [g2 EXCEPT !.sunk_ships_on_p2 = @ \cup {sbit}]])

\* resolve_shot, lines 399-433: the updates of the in-memory game (bitmap,
\* hit counter, sunk mask) and the rejections found while making them.
resolve_shot_mark(stored, shooter, defender, is_hit, ship, bit) ==
    LET g1 == IF shooter = stored.player1
              THEN [stored EXCEPT !.shots_p1_to_p2 = @ \cup {bit}]
              ELSE [stored EXCEPT !.shots_p2_to_p1 = @ \cup {bit}]
        g2 == IF ~is_hit THEN g1
              ELSE IF defender = g1.player1
              THEN [g1 EXCEPT !.hits_on_p1 = @ + 1]
              ELSE [g1 EXCEPT !.hits_on_p2 = @ + 1]
        sbit == ship_bit(ship)
    IN
    IF is_hit /\ (IF defender = g2.player1 THEN g2.hits_on_p1 ELSE g2.hits_on_p2)
                     > TOTAL_SHIP_CELLS
    THEN [err |-> "TooManyHits", game |-> g2]
    ELSE IF ship = None THEN [err |-> "Ok", game |-> g2]
    ELSE IF defender = g2.player1
    THEN (IF sbit \in g2.sunk_ships_on_p1 THEN [err |-> "ShipAlreadySunk", game |-> g2]
          ELSE [err |-> "Ok", game |-> [g2 EXCEPT !.sunk_ships_on_p1 = @ \cup {sbit}]])
    ELSE (IF sbit \in g2.sunk_ships_on_p2 THEN [err |-> "ShipAlreadySunk", game |-> g2]
          ELSE [err |-> "Ok", game |-> [g2 EXCEPT !.sunk_ships_on_p2 = @ \cup {sbit}]])

\* The finish that leaves the pending shot in place.
resolve_shot_finish_keeps(game, shooter, defender, is_hit, ship) ==
    LET defender_hits == IF defender = game.player1 THEN game.hits_on_p1
                                                    ELSE game.hits_on_p2
        ended == defender_hits >= TOTAL_SHIP_CELLS
        g4 == IF ended
              THEN [game EXCEPT !.phase = "Ended", !.winner = shooter, !.turn = None]
              ELSE [game EXCEPT !.turn = defender]
    IN [ended |-> ended, player1_won |-> shooter = game.player1,
        game |-> g4,
        ret |-> [is_hit |-> is_hit, sunk_ship |-> ship,
                 winner |-> IF ended THEN shooter ELSE None,
                 next_turn |-> IF ended THEN None ELSE defender]]

\* The finish that ends the game without recording the winner.
resolve_shot_finish_nowinner(game, shooter, defender, is_hit, ship) ==
    LET defender_hits == IF defender = game.player1 THEN game.hits_on_p1
                                                    ELSE game.hits_on_p2
        ended == defender_hits >= TOTAL_SHIP_CELLS
        g4 == IF ended
              THEN [game EXCEPT !.phase = "Ended", !.turn = None]
              ELSE [game EXCEPT !.turn = defender]
    IN [ended |-> ended, player1_won |-> shooter = game.player1,
        game |-> [g4 EXCEPT !.pending_shot = Absent],
        ret |-> [is_hit |-> is_hit, sunk_ship |-> ship,
                 winner |-> IF ended THEN shooter ELSE None,
                 next_turn |-> IF ended THEN None ELSE defender]]

\* The last steps with the game ended only beyond seventeen hits.
resolve_shot_finish_late(game, shooter, defender, is_hit, ship) ==
    LET defender_hits == IF defender = game.player1 THEN game.hits_on_p1
                                                    ELSE game.hits_on_p2
        ended == defender_hits > TOTAL_SHIP_CELLS
        g4 == IF ended
              THEN [game EXCEPT !.phase = "Ended", !.winner = shooter, !.turn = None]
              ELSE [game EXCEPT !.turn = defender]
    IN [ended |-> ended, player1_won |-> shooter = game.player1,
        game |-> [g4 EXCEPT !.pending_shot = Absent],
        ret |-> [is_hit |-> is_hit, sunk_ship |-> ship,
                 winner |-> IF ended THEN shooter ELSE None,
                 next_turn |-> IF ended THEN None ELSE defender]]

\* The finish that ends the game one hit early.
resolve_shot_finish_early(game, shooter, defender, is_hit, ship) ==
    LET defender_hits == IF defender = game.player1 THEN game.hits_on_p1
                                                    ELSE game.hits_on_p2
        ended == defender_hits >= TOTAL_SHIP_CELLS - 1
        g4 == IF ended
              THEN [game EXCEPT !.phase = "Ended", !.winner = shooter, !.turn = None]
              ELSE [game EXCEPT !.turn = defender]
    IN [ended |-> ended, player1_won |-> shooter = game.player1,
        game |-> [g4 EXCEPT !.pending_shot = Absent],
        ret |-> [is_hit |-> is_hit, sunk_ship |-> ship,
                 winner |-> IF ended THEN shooter ELSE None,
                 next_turn |-> IF ended THEN None ELSE defender]]

\* The finish that lets the shooter fire again after a hit.
resolve_shot_finish_hitagain(game, shooter, defender, is_hit, ship) ==
    LET defender_hits == IF defender = game.player1 THEN game.hits_on_p1
                                                    ELSE game.hits_on_p2
        ended == defender_hits >= TOTAL_SHIP_CELLS
        next == IF is_hit THEN shooter ELSE defender
        g4 == IF ended
              THEN [game EXCEPT !.phase = "Ended", !.winner = shooter, !.turn = None]
              ELSE [game EXCEPT !.turn = next]
    IN [ended |-> ended, player1_won |-> shooter = game.player1,
        game |-> [g4 EXCEPT !.pending_shot = Absent],
        ret |-> [is_hit |-> is_hit, sunk_ship |-> ship,
                 winner |-> IF ended THEN shooter ELSE None,
                 next_turn |-> IF ended THEN None ELSE next]]

\* The finish that reports the wrong side as the winner to the hub.
resolve_shot_finish_wrongside(game, shooter, defender, is_hit, ship) ==
    LET defender_hits == IF defender = game.player1 THEN game.hits_on_p1
                                                    ELSE game.hits_on_p2
        ended == defender_hits >= TOTAL_SHIP_CELLS
        g4 == IF ended
              THEN [game EXCEPT !.phase = "Ended", !.winner = shooter, !.turn = None]
              ELSE [game EXCEPT !.turn = defender]
    IN [ended |-> ended, player1_won |-> shooter # game.player1,
        game |-> [g4 EXCEPT !.pending_shot = Absent],
        ret |-> [is_hit |-> is_hit, sunk_ship |-> ship,
                 winner |-> IF ended THEN shooter ELSE None,
                 next_turn |-> IF ended THEN None ELSE defender]]

\* resolve_shot, lines 435-473: win detection, the turn hand-over, clearing
\* the pending shot and the returned ShotResult.  game is the in-memory game
\* after resolve_shot_mark; ended tells whether the hub's end_game is called.
resolve_shot_finish(game, shooter, defender, is_hit, ship) ==
    LET defender_hits == IF defender = game.player1 THEN game.hits_on_p1
                                                    ELSE game.hits_on_p2
        ended == defender_hits >= TOTAL_SHIP_CELLS
        g4 == IF ended
              THEN [game EXCEPT !.phase = "Ended", !.winner = shooter, !.turn = None]
              ELSE [game EXCEPT !.turn = defender]
    IN [ended |-> ended, player1_won |-> shooter = game.player1,
        game |-> [g4 EXCEPT !.pending_shot = Absent],
        ret |-> [is_hit |-> is_hit, sunk_ship |-> ship,
                 winner |-> IF ended THEN shooter ELSE None,
                 next_turn |-> IF ended THEN None ELSE defender]]

\* resolve_shot that writes the in-memory game before the rejections found
\* while updating it.
resolve_shot_savesearly(stored, session_id, defender, is_hit, sunk_ship, proof_payload, public_inputs_hash, hubOk) ==
    IF stored = Absent THEN Fail("GameNotFound", stored, FALSE)
    ELSE IF stored.phase = "Ended" THEN Fail("GameAlreadyEnded", stored, FALSE)
    ELSE IF stored.phase # "InProgress" THEN Fail("InvalidPhase", stored, FALSE)
    ELSE IF stored.pending_shot = Absent THEN Fail("NoPendingShot", stored, FALSE)
    ELSE
      LET pending == stored.pending_shot
          shooter == pending.shooter
          expected_defender == opponent(stored, shooter)
          ship == parse_ship_type(sunk_ship)
          b == coord_to_bit(pending.x, pending.y)
          board_commitment == IF defender = stored.player1
                              THEN stored.board_commitment_p1
                              ELSE stored.board_commitment_p2
          expected_hash == build_public_inputs_hash_internal(
                               session_id, defender, shooter, pending.x, pending.y,
                               is_hit, sunk_ship, board_commitment)
          gate == resolve_shot_gate(expected_hash, board_commitment,
                                    public_inputs_hash, proof_payload)
          marked == resolve_shot_mark(stored, shooter, defender, is_hit, ship.ship, b.bit)
          fin == resolve_shot_finish(marked.game, shooter, defender, is_hit, ship.ship)
      IN
      IF expected_defender.err # "Ok" THEN Fail(expected_defender.err, stored, FALSE)
      ELSE IF defender # expected_defender.addr THEN Fail("InvalidDefender", stored, FALSE)
      ELSE IF ship.err # "Ok" THEN Fail(ship.err, stored, FALSE)
      ELSE IF ship.ship # None /\ ~is_hit THEN Fail("InvalidSunkShip", stored, FALSE)
      ELSE IF b.err # "Ok" THEN Fail(b.err, stored, FALSE)
      ELSE IF shooter = stored.player1 /\ b.bit \in stored.shots_p1_to_p2
           THEN Fail("ShotAlreadyResolved", stored, FALSE)
      ELSE IF shooter # stored.player1 /\ b.bit \in stored.shots_p2_to_p1
           THEN Fail("ShotAlreadyResolved", stored, FALSE)
      ELSE IF board_commitment = None THEN Fail("BoardNotCommitted", stored, FALSE)
      ELSE IF gate.err # "Ok" THEN Fail(gate.err, stored, gate.verifier)
      ELSE IF marked.err # "Ok" THEN Fail(marked.err, marked.game, TRUE)
      ELSE IF fin.ended /\ ~hubOk THEN Panic(stored, TRUE, "end")
      ELSE [err |-> "Ok", game |-> fin.game, verifier |-> TRUE,
            hub |-> IF fin.ended THEN "end" ELSE "none", ret |-> fin.ret,
            order |-> IF fin.ended THEN <<"verify", "hub", "save">>
                                   ELSE <<"verify", "save">>,
            player1_won |-> fin.ended /\ fin.player1_won]

resolve_shot(stored, session_id, defender, is_hit, sunk_ship, proof_payload, public_inputs_hash, hubOk) ==
    IF stored = Absent THEN Fail("GameNotFound", stored, FALSE)
    ELSE IF stored.phase = "Ended" THEN Fail("GameAlreadyEnded", stored, FALSE)
    ELSE IF stored.phase # "InProgress" THEN Fail("InvalidPhase", stored, FALSE)
    ELSE IF stored.pending_shot = Absent THEN Fail("NoPendingShot", stored, FALSE)
    ELSE
      LET pending == stored.pending_shot
          shooter == pending.shooter
          expected_defender == opponent(stored, shooter)
          ship == parse_ship_type(sunk_ship)
          b == coord_to_bit(pending.x, pending.y)
          board_commitment == IF defender = stored.player1
                              THEN stored.board_commitment_p1
                              ELSE stored.board_commitment_p2
          expected_hash == build_public_inputs_hash_internal(
                               session_id, defender, shooter, pending.x, pending.y,
                               is_hit, sunk_ship, board_commitment)
          gate == resolve_shot_gate(expected_hash, board_commitment,
                                    public_inputs_hash, proof_payload)
          marked == resolve_shot_mark(stored, shooter, defender, is_hit, ship.ship, b.bit)
          fin == resolve_shot_finish(marked.game, shooter, defender, is_hit, ship.ship)
      IN
      IF expected_defender.err # "Ok" THEN Fail(expected_defender.err, stored, FALSE)
      ELSE IF defender # expected_defender.addr THEN Fail("InvalidDefender", stored, FALSE)
      ELSE IF ship.err # "Ok" THEN Fail(ship.err, stored, FALSE)
      ELSE IF ship.ship # None /\ ~is_hit THEN Fail("InvalidSunkShip", stored, FALSE)
      ELSE IF b.err # "Ok" THEN Fail(b.err, stored, FALSE)
      ELSE IF shooter = stored.player1 /\ b.bit \in stored.shots_p1_to_p2
           THEN Fail("ShotAlreadyResolved", stored, FALSE)
      ELSE IF shooter # stored.player1 /\ b.bit \in stored.shots_p2_to_p1
           THEN Fail("ShotAlreadyResolved", stored, FALSE)
      ELSE IF board_commitment = None THEN Fail("BoardNotCommitted", stored, FALSE)
      ELSE IF gate.err # "Ok" THEN Fail(gate.err, stored, gate.verifier)
      ELSE IF marked.err # "Ok" THEN Fail(marked.err, stored, TRUE)
      ELSE IF fin.ended /\ ~hubOk THEN Panic(stored, TRUE, "end")
      ELSE [err |-> "Ok", game |-> fin.game, verifier |-> TRUE,
            hub |-> IF fin.ended THEN "end" ELSE "none", ret |-> fin.ret,
            order |-> IF fin.ended THEN <<"verify", "hub", "save">>
                                   ELSE <<"verify", "save">>,
            player1_won |-> fin.ended /\ fin.player1_won]

(* ======================== Wordle (contracts/wordle) ==================== *)

WORD_LENGTH == 5
ALPHABET_SIZE == 26
MAX_GUESSES == 6

\* Option<BytesN<5>>::None (a BytesN<5> has five bytes).
NoGuess == <<>>

Guess_new(letters) ==
    IF \E i \in 1..Len(letters) : letters[i] >= ALPHABET_SIZE
    THEN "InvalidLetterValue" ELSE "Ok"

FeedbackStatus_from_u32(value) ==
    IF value \in {0, 1, 2} THEN "Ok" ELSE "InvalidFeedbackValue"

\* from_vec without the check of the entries' values.
Feedback_from_vec_anyvalue(feedback) ==
    IF Len(feedback) # WORD_LENGTH THEN "InvalidFeedbackLength" ELSE "Ok"

Feedback_from_vec(feedback) ==
    IF Len(feedback) # WORD_LENGTH THEN "InvalidFeedbackLength"
    ELSE IF \E i \in 1..5 : FeedbackStatus_from_u32(feedback[i]) # "Ok"
         THEN "InvalidFeedbackValue"
    ELSE "Ok"

Game_new(word_setter, guesser, word_setter_points, guesser_points) ==
    [word_setter |-> word_setter, guesser |-> guesser,
     word_setter_points |-> word_setter_points, guesser_points |-> guesser_points,
     phase |-> "WaitingForWord", word_commitment |-> None,
     guess_count |-> 0, pending_guess |-> NoGuess, winner |-> None,
     guesses |-> <<>>, feedbacks |-> <<>>]

\* commit_word without the check of the caller's role.
Game_commit_word_anyone(game, player, commitment) ==
    IF game.phase = "Ended" THEN [err |-> "GameAlreadyEnded", game |-> game]
    ELSE IF game.phase # "WaitingForWord" THEN [err |-> "InvalidPhase", game |-> game]
    ELSE IF game.word_commitment # None THEN [err |-> "WordAlreadyCommitted", game |-> game]
    ELSE [err |-> "Ok",
          game |-> [game EXCEPT !.word_commitment = commitment, !.phase = "InProgress"]]

\* commit_word that ends the game instead of starting it.
Game_commit_word_ends(game, player, commitment) ==
    IF game.phase = "Ended" THEN [err |-> "GameAlreadyEnded", game |-> game]
    ELSE IF game.phase # "WaitingForWord" THEN [err |-> "InvalidPhase", game |-> game]
    ELSE IF player # game.word_setter THEN [err |-> "NotWordSetter", game |-> game]
    ELSE IF game.word_commitment # None THEN [err |-> "WordAlreadyCommitted", game |-> game]
    ELSE [err |-> "Ok",
          game |-> [game EXCEPT !.word_commitment = commitment, !.phase = "Ended"]]

\* Result of a domain method: the error and the aggregate after the call.
Game_commit_word(game, player, commitment) ==
    IF game.phase = "Ended" THEN [err |-> "GameAlreadyEnded", game |-> game]
    ELSE IF game.phase # "WaitingForWord" THEN [err |-> "InvalidPhase", game |-> game]
    ELSE IF player # game.word_setter THEN [err |-> "NotWordSetter", game |-> game]
    ELSE IF game.word_commitment # None THEN [err |-> "WordAlreadyCommitted", game |-> game]
    ELSE [err |-> "Ok",
          game |-> [game EXCEPT !.word_commitment = commitment, !.phase = "InProgress"]]

\* submit_guess that replaces a pending guess instead of rejecting the new one.
Game_submit_guess_replaces(game, player, guess) ==
    IF game.phase = "Ended" THEN [err |-> "GameAlreadyEnded", game |-> game]
    ELSE IF game.phase # "InProgress" THEN [err |-> "InvalidPhase", game |-> game]
    ELSE IF player # game.guesser THEN [err |-> "NotGuesser", game |-> game]
    ELSE IF game.guess_count >= MAX_GUESSES THEN [err |-> "MaxGuessesReached", game |-> game]
    ELSE [err |-> "Ok", game |-> [game EXCEPT !.pending_guess = guess]]

Game_submit_guess(game, player, guess) ==
    IF game.phase = "Ended" THEN [err |-> "GameAlreadyEnded", game |-> game]
    ELSE IF game.phase # "InProgress" THEN [err |-> "InvalidPhase", game |-> game]
    ELSE IF player # game.guesser THEN [err |-> "NotGuesser", game |-> game]
    ELSE IF game.pending_guess # NoGuess THEN [err |-> "PendingGuessExists", game |-> game]
    ELSE IF game.guess_count >= MAX_GUESSES THEN [err |-> "MaxGuessesReached", game |-> game]
    ELSE [err |-> "Ok", game |-> [game EXCEPT !.pending_guess = guess]]

\* The bytes that are hashed: the 15-byte fixed header (session id as
\* big-endian u32, the five guess bytes, feedback.get(i).unwrap_or(0) as u8
\* for i in 0..5, the is_correct byte), the commitment, the two strkeys.
ResolveGuessCommand_build_public_inputs_hash(session_id, word_setter, guesser, guess_letters, feedback, is_correct, word_commitment) ==
    <<session_id, guess_letters,
      [i \in 1..5 |-> IF i <= Len(feedback) THEN feedback[i] % 256 ELSE 0],
      IF is_correct THEN 1 ELSE 0, word_commitment, word_setter, guesser>>

\* The start command without the check that the session id is free.
StartGameCommand_execute_resets(stored, session_id, word_setter, guesser, word_setter_points, guesser_points, hubOk) ==
    IF word_setter = guesser THEN Fail("SelfPlayNotAllowed", stored, FALSE)
    ELSE IF ~hubOk THEN Panic(stored, FALSE, "start")
    ELSE [err |-> "Ok",
          game |-> Game_new(word_setter, guesser, word_setter_points, guesser_points),
          verifier |-> FALSE, hub |-> "start", ret |-> Absent,
          order |-> <<"hub", "save">>, player1_won |-> FALSE]

StartGameCommand_execute(stored, session_id, word_setter, guesser, word_setter_points, guesser_points, hubOk) ==
    IF word_setter = guesser THEN Fail("SelfPlayNotAllowed", stored, FALSE)
    ELSE IF stored # Absent THEN Fail("GameAlreadyExists", stored, FALSE)
    ELSE IF ~hubOk THEN Panic(stored, FALSE, "start")
    ELSE [err |-> "Ok",
          game |-> Game_new(word_setter, guesser, word_setter_points, guesser_points),
          verifier |-> FALSE, hub |-> "start", ret |-> Absent,
          order |-> <<"hub", "save">>, player1_won |-> FALSE]

CommitWordCommand_execute(stored, session_id, player, word_commitment) ==
    IF stored = Absent THEN Fail("GameNotFound", stored, FALSE)
    ELSE LET r == Game_commit_word(stored, player, word_commitment) IN
         IF r.err # "Ok" THEN Fail(r.err, stored, FALSE)
         ELSE [err |-> "Ok", game |-> r.game, verifier |-> FALSE,
               hub |-> "none", ret |-> Absent,
               order |-> <<"save">>, player1_won |-> FALSE]

GuessCommand_execute(stored, session_id, guesser, guess_letters) ==
    IF Guess_new(guess_letters) # "Ok" THEN Fail(Guess_new(guess_letters), stored, FALSE)
    ELSE IF stored = Absent THEN Fail("GameNotFound", stored, FALSE)
    ELSE LET r == Game_submit_guess(stored, guesser, guess_letters) IN
         IF r.err # "Ok" THEN Fail(r.err, stored, FALSE)
         ELSE [err |-> "Ok", game |-> r.game, verifier |-> FALSE,
               hub |-> "none", ret |-> Absent,
               order |-> <<"save">>, player1_won |-> FALSE]

\* ResolveGuessCommand::execute, lines 131-151: the proof gate.
ResolveGuessCommand_gate(expected_hash, word_commitment, public_inputs_hash, proof_payload) ==
    IF expected_hash # public_inputs_hash
    THEN [err |-> "InvalidPublicInputsHash", verifier |-> FALSE]
    ELSE IF ~MockVerifier_verify(word_commitment, public_inputs_hash, proof_payload)
    THEN [err |-> "InvalidProof", verifier |-> TRUE]
    ELSE [err |-> "Ok", verifier |-> TRUE]

\* The outcome with the guess counter left as it was.
ResolveGuessCommand_outcome_nocount(game, guess_letters, feedback, is_correct) ==
    LET g1 == [game EXCEPT !.guesses = Append(@, guess_letters),
                           !.feedbacks = Append(@, feedback),
                           !.pending_guess = NoGuess]
    IN IF is_correct
       THEN [outcome |-> "GuesserWins",
             game |-> [g1 EXCEPT !.phase = "Ended", !.winner = g1.guesser]]
       ELSE IF g1.guess_count >= MAX_GUESSES
       THEN [outcome |-> "WordSetterWins",
             game |-> [g1 EXCEPT !.phase = "Ended", !.winner = g1.word_setter]]
       ELSE [outcome |-> "Continue", game |-> g1]

\* The outcome with the guess limit tested before the correctness flag.
ResolveGuessCommand_outcome_limitfirst(game, guess_letters, feedback, is_correct) ==
    LET g1 == [game EXCEPT !.guesses = Append(@, guess_letters),
                           !.feedbacks = Append(@, feedback),
                           !.guess_count = @ + 1,
                           !.pending_guess = NoGuess]
    IN IF g1.guess_count >= MAX_GUESSES
       THEN [outcome |-> "WordSetterWins",
             game |-> [g1 EXCEPT !.phase = "Ended", !.winner = g1.word_setter]]
       ELSE IF is_correct
       THEN [outcome |-> "GuesserWins",
             game |-> [g1 EXCEPT !.phase = "Ended", !.winner = g1.guesser]]
       ELSE [outcome |-> "Continue", game |-> g1]

\* The outcome that never ends the game for the number of guesses.
ResolveGuessCommand_outcome_nolimit(game, guess_letters, feedback, is_correct) ==
    LET g1 == [game EXCEPT !.guesses = Append(@, guess_letters),
                           !.feedbacks = Append(@, feedback),
                           !.guess_count = @ + 1,
                           !.pending_guess = NoGuess]
    IN IF is_correct
       THEN [outcome |-> "GuesserWins",
             game |-> [g1 EXCEPT !.phase = "Ended", !.winner = g1.guesser]]
       ELSE [outcome |-> "Continue", game |-> g1]

\* ResolveGuessCommand::execute, lines 153-169: the history and counter
\* update, clearing the pending guess, and the outcome.
ResolveGuessCommand_outcome(game, guess_letters, feedback, is_correct) ==
    LET g1 == [game EXCEPT !.guesses = Append(@, guess_letters),
                           !.feedbacks = Append(@, feedback),
                           !.guess_count = @ + 1,
                           !.pending_guess = NoGuess]
    IN IF is_correct
       THEN [outcome |-> "GuesserWins",
             game |-> [g1 EXCEPT !.phase = "Ended", !.winner = g1.guesser]]
       ELSE IF g1.guess_count >= MAX_GUESSES
       THEN [outcome |-> "WordSetterWins",
             game |-> [g1 EXCEPT !.phase = "Ended", !.winner = g1.word_setter]]
       ELSE [outcome |-> "Continue", game |-> g1]

Game_guesser_won(game) == game.winner = game.guesser

GameOutcome_is_game_over(outcome) == outcome \in {"GuesserWins", "WordSetterWins"}

ResolveGuessCommand_execute(stored, session_id, word_setter, feedback, is_correct, proof_payload, public_inputs_hash, hubOk) ==
    IF stored = Absent THEN Fail("GameNotFound", stored, FALSE)
    ELSE IF Feedback_from_vec(feedback) # "Ok"
         THEN Fail(Feedback_from_vec(feedback), stored, FALSE)
    ELSE IF stored.word_commitment = None THEN Fail("WordNotCommitted", stored, FALSE)
    ELSE IF stored.pending_guess = NoGuess THEN Fail("NoPendingGuess", stored, FALSE)
    ELSE
      LET word_commitment == stored.word_commitment
          guess_letters == stored.pending_guess
          expected_hash == ResolveGuessCommand_build_public_inputs_hash(
                               session_id, word_setter, stored.guesser, guess_letters,
                               feedback, is_correct, word_commitment)
          gate == ResolveGuessCommand_gate(expected_hash, word_commitment,
                                           public_inputs_hash, proof_payload)
          out == ResolveGuessCommand_outcome(stored, guess_letters, feedback, is_correct)
          game_over == GameOutcome_is_game_over(out.outcome)
      IN
      IF gate.err # "Ok" THEN Fail(gate.err, stored, gate.verifier)
      ELSE IF game_over /\ ~hubOk THEN Panic(stored, TRUE, "end")
      ELSE [err |-> "Ok", game |-> out.game, verifier |-> TRUE,
            hub |-> IF game_over THEN "end" ELSE "none",
            ret |-> [guess_number |-> out.game.guess_count, feedback |-> feedback,
                     is_correct |-> is_correct, winner |-> out.game.winner,
                     game_ended |-> game_over],
            order |-> IF game_over THEN <<"verify", "hub", "save">>
                                   ELSE <<"verify", "save">>,
            player1_won |-> game_over /\ ~Game_guesser_won(out.game)]

\* resolve_shot that requires the defender's authorization.
BattleshipContract_resolve_shot_authdefender(signers, stored, session_id, defender, is_hit, sunk_ship, proof_payload, public_inputs_hash, hubOk) ==
    IF defender \notin signers THEN Fail("Panic", stored, FALSE)
    ELSE resolve_shot(stored, session_id, defender, is_hit, sunk_ship, proof_payload,
                      public_inputs_hash, hubOk)

\* The resolve_shot entry point invoked with the authorizations of signers:
\* it contains no require_auth, so the signers play no part.
BattleshipContract_resolve_shot(signers, stored, session_id, defender, is_hit, sunk_ship, proof_payload, public_inputs_hash, hubOk) ==
    resolve_shot(stored, session_id, defender, is_hit, sunk_ship, proof_payload,
                 public_inputs_hash, hubOk)

\* The resolve_guess entry point invoked with the authorizations of signers:
\* it hands its arguments to the command, which contains no require_auth.
WordleContract_resolve_guess(signers, stored, session_id, word_setter, feedback, is_correct, proof_payload, public_inputs_hash, hubOk) ==
    ResolveGuessCommand_execute(stored, session_id, word_setter, feedback, is_correct,
                                proof_payload, public_inputs_hash, hubOk)

(* ====== verifier adapters (contracts/*-verifier-adapter) =============== *)

\* A u32 is kept as the pair <<high 16 bits, low 16 bits>>, so that the
\* 32-bit width of the length arithmetic is exact.
U16 == 65536

u32_from(n) == <<n \div U16, n % U16>>

\* u32::checked_mul by a small factor and u32::checked_add: ok is FALSE
\* when the result does not fit 32 bits.
checked_mul(a, k) ==
    LET lo == a[2] * k
        hi == a[1] * k + lo \div U16
    IN [ok |-> hi < U16, v |-> <<hi % U16, lo % U16>>]

checked_add(a, b) ==
    LET lo == a[2] + b[2]
        hi == a[1] + b[1] + lo \div U16
    IN [ok |-> hi < U16, v |-> <<hi % U16, lo % U16>>]

PAYLOAD_HEADER_BYTES == 4
FR_BYTES == 32
\* BN254_G1_SERIALIZED_SIZE + BN254_G2_SERIALIZED_SIZE + BN254_G1_SERIALIZED_SIZE
PROOF_BYTES == 64 + 128 + 64
PROOF_OFFSET == PAYLOAD_HEADER_BYTES
INPUTS_OFFSET == PROOF_OFFSET + PROOF_BYTES
EXPECTED_COUNT == 15

\* A payload buffer: its length, its first four bytes, the 256 proof bytes
\* (one value) and the whole 32-byte blocks that follow offset 260.  A
\* 32-byte block is the pair <<bytes 0..16, bytes 16..32>>, a 16-byte string
\* is a number and Zero16 is sixteen zero bytes.
Zero16 == 0

Payload(len, header, limbs) ==
    [len |-> len, header |-> header, proof |-> "abc", limbs |-> limbs]

\* read_u32_be at offset 0.
read_u32_be(payload) ==
    IF 0 + 4 > payload.len THEN [ok |-> FALSE, v |-> <<0, 0>>]
    ELSE [ok |-> TRUE, v |-> <<payload.header[1] * 256 + payload.header[2],
                               payload.header[3] * 256 + payload.header[4]>>]

\* read_array::<N> at an offset: the bounds check, and the block read at a
\* cursor behind the proof.
read_array_ok(payload, offset, n) == offset + n <= payload.len

read_limb(payload, cursor) == payload.limbs[(cursor - INPUTS_OFFSET) \div FR_BYTES + 1]

\* Fr::from_bytes and Fr::to_bytes: the field element keeps the 32 bytes it
\* was made from.
Fr_from_bytes(limb) == [fr |-> limb]

Fr_to_bytes(f) == f.fr

\* The steps the two parsers share after the length checks: the proof and
\* the public_inputs_count blocks read from consecutive cursors; failed is
\* TRUE if a read falls outside the buffer.
read_proof_and_inputs(payload, public_inputs_count) ==
    LET cursor(i) == INPUTS_OFFSET + (i - 1) * FR_BYTES
    IN [failed |-> \/ ~read_array_ok(payload, PROOF_OFFSET, 64)
                   \/ ~read_array_ok(payload, PROOF_OFFSET + 64, 128)
                   \/ ~read_array_ok(payload, PROOF_OFFSET + 64 + 128, 64)
                   \/ \E i \in 1..public_inputs_count :
                         ~read_array_ok(payload, cursor(i), 32),
        proof |-> payload.proof,
        public_inputs |-> [i \in 1..public_inputs_count |->
                             Fr_from_bytes(read_limb(payload, cursor(i)))]]

NoParse(e) == [err |-> e, proof |-> "", public_inputs |-> <<>>]

\* The parser with the length test turned into "at least".
PayloadParser_parse_atleast(payload) ==
    IF payload.len < INPUTS_OFFSET THEN NoParse("MalformedProof")
    ELSE LET public_inputs_count == read_u32_be(payload)
             mul == checked_mul(public_inputs_count.v, FR_BYTES)
             expected_len == checked_add(u32_from(INPUTS_OFFSET), mul.v)
         IN IF ~public_inputs_count.ok \/ ~mul.ok \/ ~expected_len.ok
            THEN NoParse("MalformedProof")
            ELSE IF \/ expected_len.v[1] # 0
                    \/ payload.len < expected_len.v[2]
            THEN NoParse("InvalidPayloadLength")
            ELSE LET n == public_inputs_count.v[1] * U16 + public_inputs_count.v[2]
                     r == read_proof_and_inputs(payload, n)
                 IN IF r.failed THEN NoParse("MalformedProof")
                    ELSE [err |-> "Ok", proof |-> r.proof,
                          public_inputs |-> r.public_inputs]

\* wordle-verifier-adapter, PayloadParser::parse.
PayloadParser_parse(payload) ==
    IF payload.len < INPUTS_OFFSET THEN NoParse("MalformedProof")
    ELSE LET public_inputs_count == read_u32_be(payload)
             mul == checked_mul(public_inputs_count.v, FR_BYTES)
             expected_len == checked_add(u32_from(INPUTS_OFFSET), mul.v)
         IN IF ~public_inputs_count.ok \/ ~mul.ok \/ ~expected_len.ok
            THEN NoParse("MalformedProof")
            ELSE IF u32_from(payload.len) # expected_len.v
            THEN NoParse("InvalidPayloadLength")
            ELSE LET n == public_inputs_count.v[1] * U16 + public_inputs_count.v[2]
                     r == read_proof_and_inputs(payload, n)
                 IN IF r.failed THEN NoParse("MalformedProof")
                    ELSE [err |-> "Ok", proof |-> r.proof,
                          public_inputs |-> r.public_inputs]

\* battleship-verifier-adapter, parse_payload: the same steps, every
\* failure reported as None.
parse_payload(payload) ==
    IF payload.len < INPUTS_OFFSET THEN NoParse("None")
    ELSE LET public_inputs_count == read_u32_be(payload)
             mul == checked_mul(public_inputs_count.v, FR_BYTES)
             expected_len == checked_add(u32_from(INPUTS_OFFSET), mul.v)
         IN IF ~public_inputs_count.ok \/ ~mul.ok \/ ~expected_len.ok
            THEN NoParse("None")
            ELSE IF u32_from(payload.len) # expected_len.v
            THEN NoParse("None")
            ELSE LET n == public_inputs_count.v[1] * U16 + public_inputs_count.v[2]
                     r == read_proof_and_inputs(payload, n)
                 IN IF r.failed THEN NoParse("None")
                    ELSE [err |-> "Ok", proof |-> r.proof,
                          public_inputs |-> r.public_inputs]

\* The split with the sixteen bytes left-aligned in the limb.
split_u256_to_fr_limbs_leftaligned(value) ==
    <<<<value[1], Zero16>>, <<value[2], Zero16>>>>

\* split_u256_to_fr_limbs (both adapters): hi[16..32] = value[0..16],
\* lo[16..32] = value[16..32], the top sixteen bytes of each left zero.
split_u256_to_fr_limbs(value) ==
    <<<<Zero16, value[1]>>, <<Zero16, value[2]>>>>

\* battleship-verifier-adapter, binding_inputs_match.
binding_inputs_match(public_inputs, board_commitment, public_inputs_hash) ==
    IF Len(public_inputs) < 4 THEN FALSE
    ELSE LET board == split_u256_to_fr_limbs(board_commitment)
             hash == split_u256_to_fr_limbs(public_inputs_hash)
         IN /\ Fr_to_bytes(public_inputs[1]) = board[1]
            /\ Fr_to_bytes(public_inputs[2]) = board[2]
            /\ Fr_to_bytes(public_inputs[3]) = hash[1]
            /\ Fr_to_bytes(public_inputs[4]) = hash[2]

\* wordle-verifier-adapter, PublicInputs::validate_binding.
PublicInputs_validate_binding(public_inputs, word_commitment, public_inputs_hash) ==
    IF Len(public_inputs) < 4 THEN "MalformedPublicInputs"
    ELSE LET word == split_u256_to_fr_limbs(word_commitment)
             hash == split_u256_to_fr_limbs(public_inputs_hash)
             matches == /\ Fr_to_bytes(public_inputs[1]) = word[1]
                        /\ Fr_to_bytes(public_inputs[2]) = word[2]
                        /\ Fr_to_bytes(public_inputs[3]) = hash[1]
                        /\ Fr_to_bytes(public_inputs[4]) = hash[2]
         IN IF matches THEN "Ok" ELSE "BindingMismatch"

\* What the Groth16 verifier contract answers to a call (trait
\* CircomGroth16Verifier, Result<bool, Groth16Error>): Ok(true), Ok(false)
\* or an error.
Groth16Answers == {"true", "false", "error"}

\* CircomGroth16VerifierClient::verify returns bool: an Ok answer is
\* returned, an error answer aborts the calling contract.
CircomGroth16VerifierClient_verify(answer) ==
    [trap |-> answer = "error", ret |-> answer = "true"]

\* The result of an adapter's verify: the bool returned, or trap when the
\* call aborted; called tells whether the Groth16 verifier was invoked.
AdapterReturn(b) == [trap |-> FALSE, ret |-> b, called |-> FALSE]

\* wordle-verifier-adapter, Groth16VerifierGateway::verify:
\* Ok(verifier.verify(proof, public_inputs)).
Groth16VerifierGateway_verify(answer) ==
    LET r == CircomGroth16VerifierClient_verify(answer)
    IN [trap |-> r.trap, ret |-> r.ret, called |-> TRUE]

\* battleship-verifier-adapter, verify.
BattleshipVerifierAdapter_verify(board_commitment, public_inputs_hash, proof_payload, answer) ==
    LET parsed == parse_payload(proof_payload)
    IN IF parsed.err # "Ok" THEN AdapterReturn(FALSE)
       ELSE IF ~binding_inputs_match(parsed.public_inputs, board_commitment, public_inputs_hash)
       THEN AdapterReturn(FALSE)
       ELSE LET r == CircomGroth16VerifierClient_verify(answer)
            IN [trap |-> r.trap, ret |-> r.ret, called |-> TRUE]

\* wordle-verifier-adapter, VerifyProofCommand::execute.
VerifyProofCommand_execute(word_commitment, public_inputs_hash, proof_payload, answer) ==
    LET parsed == PayloadParser_parse(proof_payload)
    IN IF parsed.err # "Ok" THEN AdapterReturn(FALSE)
       ELSE IF Len(parsed.public_inputs) # EXPECTED_COUNT THEN AdapterReturn(FALSE)
       ELSE IF PublicInputs_validate_binding(parsed.public_inputs, word_commitment,
                                             public_inputs_hash) # "Ok"
       THEN AdapterReturn(FALSE)
       ELSE Groth16VerifierGateway_verify(answer)

(* ============================ state machine ============================ *)

\* contract  which of the two game contracts this deployment is
\* games     its temporary storage: DataKey::Game(session_id) -> record
\* hub       the hub's record of the start_game / end_game calls that committed
\*           and of the player1_won argument of the end_game call
\* last      the most recent invocation that committed and what it returned
\* resolved  history: per session, the number of resolve calls that have
\*           succeeded for the moves of the first and of the second player
\* accepted_shots  history: per session, what the digests accepted by
\*           resolve_shot fixed (session id, shooter, x, y)
\* call      an adapter's latest verify invocation and its result
VARIABLES contract, games, hub, last, resolved, accepted_shots, call

vars == <<contract, games, hub, last, resolved, accepted_shots, call>>

\* Guess arguments: two words and one with a byte outside the alphabet.
FirstGuess == <<7, 4, 11, 11, 14>>
GuessInputs == {FirstGuess, <<0, 1, 2, 3, 4>>, <<0, 0, 0, 0, 26>>}

\* Feedback arguments: mixed, all correct, too short, a code above 2.
FirstFeedback == <<0, 1, 2, 0, 0>>
FeedbackInputs == {FirstFeedback, <<2, 2, 2, 2, 2>>, <<0, 0, 0, 0>>, <<0, 0, 0, 0, 3>>}

\* Resolved shots on the defender's board that were not hits.
MissesOn(g, defender) ==
    IF g = Absent THEN 0
    ELSE IF defender = g.player1 THEN Cardinality(g.shots_p2_to_p1) - g.hits_on_p1
    ELSE Cardinality(g.shots_p1_to_p2) - g.hits_on_p2

\* Number of entries of a history that differ from first.
AltCount(history, first) == Cardinality({i \in 1..Len(history) : history[i] # first})

\* The guesser may still submit this word / the resolver this feedback.
GuessAllowed(g, letters) ==
    IF letters = FirstGuess THEN TRUE
    ELSE IF g = Absent THEN TRUE
    ELSE AltCount(g.guesses, FirstGuess) < MaxAlt

FeedbackAllowed(g, feedback) ==
    IF feedback = FirstFeedback THEN TRUE
    ELSE IF g = Absent THEN TRUE
    ELSE AltCount(g.feedbacks, FirstFeedback) < MaxAlt

\* The resolver may still report a miss on the defender's board.
MissAllowed(g, defender, is_hit) ==
    IF is_hit THEN TRUE ELSE MissesOn(g, defender) < MaxMisses

\* A player commits its own board (word); a repeated commit tries either value.
CommitInputs(g, player) ==
    IF g = Absent THEN {"c11"}
    ELSE IF contract = "battleship"
    THEN IF player = g.player1
         THEN (IF g.board_commitment_p1 = None THEN {"c11"} ELSE Commitments)
         ELSE (IF g.board_commitment_p2 = None THEN {"c22"} ELSE Commitments)
    ELSE IF g.word_commitment = None THEN {"c11"} ELSE Commitments

\* Cells of the board in row-major order, as (x, y).
Cell(k) == <<k % BOARD_SIZE, k \div BOARD_SIZE>>

\* The coordinates callers fire at: the first cell, the first cell the turn
\* holder has not had resolved yet, and one off the board on either axis.
FireInputs(g) ==
    LET shots == IF g = Absent THEN {}
                 ELSE IF g.turn = g.player2 THEN g.shots_p2_to_p1
                 ELSE g.shots_p1_to_p2
        fresh == CHOOSE k \in 0..(BOARD_SIZE * BOARD_SIZE - 1) :
                     k \notin shots /\ \A j \in 0..(k - 1) : j \in shots
    IN {Cell(0), Cell(fresh), <<BOARD_SIZE, 0>>, <<0, BOARD_SIZE>>}

\* The digests callers submit to resolve_shot: the one the public utility
\* gives for the call, the one for the opposite hit flag, and a foreign one.
ShotHashInputs(g, session_id, defender, is_hit, sunk_ship) ==
    IF g = Absent \/ g.pending_shot = Absent THEN {WrongHash}
    ELSE LET p == g.pending_shot
             c == IF defender = g.player1 THEN g.board_commitment_p1
                                          ELSE g.board_commitment_p2
         IN {build_public_inputs_hash(session_id, defender, p.shooter, p.x, p.y,
                                      is_hit, sunk_ship, c),
             build_public_inputs_hash(session_id, defender, p.shooter, p.x, p.y,
                                      ~is_hit, sunk_ship, c),
             WrongHash}

\* The digests callers submit to resolve_guess, likewise.
GuessHashInputs(g, session_id, word_setter, feedback, is_correct) ==
    IF g = Absent \/ g.pending_guess = NoGuess THEN {WrongHash}
    ELSE {ResolveGuessCommand_build_public_inputs_hash(
              session_id, word_setter, g.guesser, g.pending_guess, feedback,
              is_correct, g.word_commitment),
          ResolveGuessCommand_build_public_inputs_hash(
              session_id, word_setter, g.guesser, g.pending_guess, feedback,
              ~is_correct, g.word_commitment),
          WrongHash}

Init ==
    /\ contract \in {"battleship", "wordle"}
    /\ games = [s \in SessionIds |-> Absent]
    /\ hub = [started |-> [s \in SessionIds |-> 0], ended |-> [s \in SessionIds |-> 0],
              player1_won |-> [s \in SessionIds |-> FALSE]]
    /\ last = [op |-> "__constructor", session |-> 0, verifier |-> FALSE,
               hub |-> "none", ret |-> Absent, order |-> <<>>]
    /\ resolved = [s \in SessionIds |-> [first |-> 0, second |-> 0]]
    /\ accepted_shots = [s \in SessionIds |-> {}]
    /\ call = Absent

\* Whose move is pending in a stored session: a Battleship shot of player1
\* ("first") or player2, a Wordle guess of the guesser (named second).
Mover(g) ==
    IF contract = "battleship" /\ g.pending_shot.shooter = g.player1 THEN "first"
    ELSE "second"

\* The transaction with outcome r commits (r.err = "Ok"), or it returns an
\* error or traps and the host rolls it back: nothing is written.
\* The session id, shooter and coordinates hashed into a digest (the first,
\* eighth, second and third parts of the hashed bytes); a digest of another
\* shape stands for itself.
ShotOf(h) == IF Len(h) = 8 THEN <<h[1], h[8], h[2], h[3]>> ELSE <<h>>

\* h is the digest the call carried (<<>> for the calls that carry none).
ApplyWith(op, s, r, h) ==
    IF r.err = "Ok"
    THEN /\ games' = [games EXCEPT ![s] = r.game]
         /\ hub' = IF r.hub = "start" THEN [hub EXCEPT !.started[s] = @ + 1]
                   ELSE IF r.hub = "end"
                   THEN [hub EXCEPT !.ended[s] = @ + 1, !.player1_won[s] = r.player1_won]
                   ELSE hub
         /\ last' = [op |-> op, session |-> s, verifier |-> r.verifier,
                     hub |-> r.hub, ret |-> r.ret, order |-> r.order]
         /\ resolved' = IF op \notin {"resolve_shot", "resolve_guess"} THEN resolved
                        ELSE IF Mover(games[s]) = "first"
                        THEN [resolved EXCEPT ![s].first = @ + 1]
                        ELSE [resolved EXCEPT ![s].second = @ + 1]
         /\ accepted_shots' = IF op = "resolve_shot"
                               THEN [accepted_shots EXCEPT ![s] = @ \cup {ShotOf(h)}]
                               ELSE accepted_shots
         /\ UNCHANGED <<contract, call>>
    ELSE UNCHANGED vars

Apply(op, s, r) == ApplyWith(op, s, r, <<>>)

StartGame ==
    /\ contract = "battleship"
    /\ \E s \in SessionIds, pr \in StartPairs, pts \in Stakes, hubOk \in BOOLEAN :
          Apply("start_game", s,
                start_game(games[s], s, pr[1], pr[2], pts, pts, hubOk))

CommitBoard ==
    /\ contract = "battleship"
    /\ \E s \in SessionIds, player \in Addresses :
       \E c \in CommitInputs(games[s], player) :
          Apply("commit_board", s, commit_board(games[s], s, player, c))

Fire ==
    /\ contract = "battleship"
    /\ \E s \in SessionIds, shooter \in Addresses :
       \E xy \in FireInputs(games[s]) :
          Apply("fire", s, fire(games[s], s, shooter, xy[1], xy[2]))

ResolveShot ==
    /\ contract = "battleship"
    /\ \E s \in SessionIds, defender \in Addresses, is_hit \in BOOLEAN,
          sunk_ship \in SunkInputs, payload \in Payloads, hubOk \in BOOLEAN :
       /\ MissAllowed(games[s], defender, is_hit)
       /\ \E h \in ShotHashInputs(games[s], s, defender, is_hit, sunk_ship),
             signers \in SignerSets :
             ApplyWith("resolve_shot", s,
                       BattleshipContract_resolve_shot(signers, games[s], s, defender,
                                                       is_hit, sunk_ship, payload, h, hubOk),
                       h)

WStartGame ==
    /\ contract = "wordle"
    /\ \E s \in SessionIds, pr \in StartPairs, pts \in Stakes, hubOk \in BOOLEAN :
          Apply("start_game", s,
                StartGameCommand_execute(games[s], s, pr[1], pr[2], pts, pts, hubOk))

CommitWord ==
    /\ contract = "wordle"
    /\ \E s \in SessionIds, player \in Addresses :
       \E c \in CommitInputs(games[s], player) :
          Apply("commit_word", s, CommitWordCommand_execute(games[s], s, player, c))

Guess ==
    /\ contract = "wordle"
    /\ \E s \in SessionIds, guesser \in Addresses, letters \in GuessInputs :
       /\ GuessAllowed(games[s], letters)
       /\ Apply("guess", s, GuessCommand_execute(games[s], s, guesser, letters))

ResolveGuess ==
    /\ contract = "wordle"
    /\ \E s \in SessionIds, word_setter \in Addresses, feedback \in FeedbackInputs,
          is_correct \in BOOLEAN, payload \in Payloads, hubOk \in BOOLEAN :
       /\ FeedbackAllowed(games[s], feedback)
       /\ \E h \in GuessHashInputs(games[s], s, word_setter, feedback, is_correct),
             signers \in SignerSets :
          Apply("resolve_guess", s,
                WordleContract_resolve_guess(signers, games[s], s, word_setter, feedback,
                                             is_correct, payload, h, hubOk))

Next ==
    \/ StartGame
    \/ CommitBoard
    \/ Fire
    \/ ResolveShot
    \/ WStartGame
    \/ CommitWord
    \/ Guess
    \/ ResolveGuess

Spec == Init /\ [][Next]_vars

\* The Wordle contract alone, with guesses that keep being submitted and
\* pending guesses that keep being resolved: a step of Guess or of
\* ResolveGuess that changes the state is a call that succeeded.
WordleInit == Init /\ contract = "wordle"

WordleNext ==
    \/ WStartGame
    \/ CommitWord
    \/ Guess
    \/ ResolveGuess

WordleFairSpec ==
    WordleInit /\ [][WordleNext]_vars /\ WF_vars(Guess) /\ WF_vars(ResolveGuess)

(* ===================== the adapters as deployed ======================== *)

\* 32-byte values (commitments, digests) offered to an adapter, each the
\* pair of its two 16-byte halves.
Bytes32Inputs == {<<1, 2>>, <<2, 1>>}

HashInputs == {<<3, 4>>}

\* The commitment the payloads tried were made for.
ProverCommitment == <<1, 2>>

\* Numbers of public inputs carried by the payloads tried.
InputCounts == {0, 3, 4, 5, 15, 16}

\* The header bytes for a small count.
Header(n) == <<0, 0, n \div 256, n % 256>>

\* The four binding limbs a prover puts first for (commitment, digest), and
\* a game-specific input.
BindingLimbs(c, h) == split_u256_to_fr_limbs(c) \o split_u256_to_fr_limbs(h)

Filler == <<Zero16, 1>>

GoodLimbs(c, h, n) == [i \in 1..n |-> IF i <= 4 THEN BindingLimbs(c, h)[i] ELSE Filler]

\* Limbs that differ from a binding limb: the sixteen bytes left-aligned, a
\* non-zero top half over the right low half, another low half.
WrongLimbs(limb) == {<<limb[2], Zero16>>, <<1, limb[2]>>, <<Zero16, limb[2] + 4>>}

\* The payloads tried: of the right length with a good header, their first
\* four inputs right or one of them wrong; with a header that counts one
\* input more or less than the buffer holds; with stray bytes at the end;
\* shorter than header and proof; and with counts from 2^27 - 9 on, for
\* which 32 * N or 260 + 32 * N is at or beyond the 32-bit range.
PayloadInputs(c, h) ==
    LET wrong(n) == UNION {{[GoodLimbs(c, h, n) EXCEPT ![i] = w] :
                              w \in WrongLimbs(BindingLimbs(c, h)[i])} :
                             i \in 1..(IF n < 4 THEN n ELSE 4)}
    IN UNION {{Payload(INPUTS_OFFSET + FR_BYTES * n, Header(n), l) :
                 l \in {GoodLimbs(c, h, n)} \cup wrong(n)} : n \in InputCounts}
       \cup {Payload(INPUTS_OFFSET + FR_BYTES * n, Header(n + 1), GoodLimbs(c, h, n)) :
               n \in {0, 4, 15}}
       \cup {Payload(INPUTS_OFFSET + FR_BYTES * n, Header(n - 1), GoodLimbs(c, h, n)) :
               n \in {4, 16}}
       \cup {Payload(INPUTS_OFFSET + FR_BYTES * n + 7, Header(n), GoodLimbs(c, h, n)) :
               n \in {0, 15}}
       \cup {Payload(3, <<0, 0, 0, 0>>, <<>>), Payload(INPUTS_OFFSET - 1, Header(0), <<>>)}
       \cup {Payload(INPUTS_OFFSET, hd, <<>>) :
               hd \in {<<7, 255, 255, 247>>, <<7, 255, 255, 248>>, <<8, 0, 0, 0>>,
                       <<255, 255, 255, 255>>}}
       \cup {Payload(INPUTS_OFFSET + FR_BYTES * 4, <<8, 0, 0, 4>>, GoodLimbs(c, h, 4))}

\* An adapter is deployed (__constructor stored admin and verifier); it
\* keeps no session, and call records its latest verify invocation.
AdapterInit ==
    /\ contract \in {"battleship-verifier-adapter", "wordle-verifier-adapter"}
    /\ games = [s \in SessionIds |-> Absent]
    /\ hub = [started |-> [s \in SessionIds |-> 0], ended |-> [s \in SessionIds |-> 0],
              player1_won |-> [s \in SessionIds |-> FALSE]]
    /\ last = [op |-> "__constructor", session |-> 0, verifier |-> FALSE,
               hub |-> "none", ret |-> Absent, order |-> <<>>]
    /\ resolved = [s \in SessionIds |-> [first |-> 0, second |-> 0]]
    /\ accepted_shots = [s \in SessionIds |-> {}]
    /\ call = Absent

BVerify ==
    /\ contract = "battleship-verifier-adapter"
    /\ \E c \in Bytes32Inputs, h \in HashInputs, answer \in Groth16Answers :
       \E p \in PayloadInputs(ProverCommitment, h) :
         call' = [commitment |-> c, hash |-> h, payload |-> p, answer |-> answer,
                  parsed |-> parse_payload(p),
                  out |-> BattleshipVerifierAdapter_verify(c, h, p, answer)]
    /\ UNCHANGED <<contract, games, hub, last, resolved, accepted_shots>>

WVerify ==
    /\ contract = "wordle-verifier-adapter"
    /\ \E c \in Bytes32Inputs, h \in HashInputs, answer \in Groth16Answers :
       \E p \in PayloadInputs(ProverCommitment, h) :
         call' = [commitment |-> c, hash |-> h, payload |-> p, answer |-> answer,
                  parsed |-> PayloadParser_parse(p),
                  out |-> VerifyProofCommand_execute(c, h, p, answer)]
    /\ UNCHANGED <<contract, games, hub, last, resolved, accepted_shots>>

AdapterNext ==
    \/ BVerify
    \/ WVerify

AdapterSpec == AdapterInit /\ [][AdapterNext]_vars

(* ============================== claims ================================ *)

\* The commitment stored for a player of a Battleship session.
StoredBoard(g, player) ==
    IF player = g.player1 THEN g.board_commitment_p1
    ELSE IF player = g.player2 THEN g.board_commitment_p2
    ELSE None

\* The digest the public utility gives for the pending shot and a claimed outcome.
ShotDigest(g, s, defender, is_hit, sunk_ship) ==
    build_public_inputs_hash(s, defender, g.pending_shot.shooter, g.pending_shot.x,
                             g.pending_shot.y, is_hit, sunk_ship, StoredBoard(g, defender))

\* The digest the public utility gives for the pending guess and a claimed outcome.
GuessDigest(g, s, word_setter, feedback, is_correct) ==
    ResolveGuessCommand_build_public_inputs_hash(
        s, word_setter, g.guesser, g.pending_guess, feedback, is_correct,
        g.word_commitment)

\* A resolve_shot call that passes every check made before the digests are
\* compared: a shot is pending, the defender is the shooter's opponent and
\* the sunk_ship argument is consistent with the hit flag.
ShotCallWellFormed(g, defender, is_hit, sunk_ship) ==
    /\ g.phase = "InProgress"
    /\ g.pending_shot # Absent
    /\ defender \in {g.player1, g.player2}
    /\ defender # g.pending_shot.shooter
    /\ sunk_ship \in 0..5
    /\ (sunk_ship # 0 => is_hit)

\* A resolve_guess call that reaches the comparison of the digests.
GuessCallWellFormed(g, feedback) ==
    /\ g.pending_guess # NoGuess
    /\ Len(feedback) = 5
    /\ \A i \in 1..5 : feedback[i] \in 0..2

\* C1 (Battleship half).  For every call of resolve_shot on a stored session:
\* the session changes only if the supplied digest is the one recomputed from
\* the pending shot, the claimed outcome and the defender's commitment and the
\* verifier accepts; a well-formed call with another digest returns
\* InvalidPublicInputsHash without consulting the verifier, whatever the
\* payload; one with the right digest and a rejected payload returns
\* InvalidProof; both leave the session (and its pending shot) as stored.
C1_ShotGate(g, s) ==
    \A defender \in Addresses, is_hit \in BOOLEAN, sunk_ship \in SunkInputs,
       payload \in Payloads, hubOk \in BOOLEAN :
    \A h \in ShotHashInputs(g, s, defender, is_hit, sunk_ship) :
      LET r == resolve_shot(g, s, defender, is_hit, sunk_ship, payload, h, hubOk)
          accepted == MockVerifier_verify(StoredBoard(g, defender), h, payload)
      IN /\ r.game # g =>
              /\ g.pending_shot # Absent
              /\ h = ShotDigest(g, s, defender, is_hit, sunk_ship)
              /\ accepted /\ r.verifier /\ r.err = "Ok"
         /\ ShotCallWellFormed(g, defender, is_hit, sunk_ship) =>
              IF h # ShotDigest(g, s, defender, is_hit, sunk_ship)
              THEN r.err = "InvalidPublicInputsHash" /\ ~r.verifier /\ r.game = g
              ELSE ~accepted => r.err = "InvalidProof" /\ r.verifier /\ r.game = g

\* C1 (Wordle half): the same for resolve_guess.
C1_GuessGate(g, s) ==
    \A word_setter \in Addresses, feedback \in FeedbackInputs, is_correct \in BOOLEAN,
       payload \in Payloads, hubOk \in BOOLEAN :
    \A h \in GuessHashInputs(g, s, word_setter, feedback, is_correct) :
      LET r == ResolveGuessCommand_execute(g, s, word_setter, feedback, is_correct,
                                           payload, h, hubOk)
          accepted == MockVerifier_verify(g.word_commitment, h, payload)
      IN /\ r.game # g =>
              /\ g.pending_guess # NoGuess
              /\ h = GuessDigest(g, s, word_setter, feedback, is_correct)
              /\ accepted /\ r.verifier /\ r.err = "Ok"
         /\ GuessCallWellFormed(g, feedback) =>
              IF h # GuessDigest(g, s, word_setter, feedback, is_correct)
              THEN r.err = "InvalidPublicInputsHash" /\ ~r.verifier /\ r.game = g
              ELSE ~accepted => r.err = "InvalidProof" /\ r.verifier /\ r.game = g

\* C1.  Proof gate, both games: in every reachable state, every resolve call
\* changes the stored session only under a matching digest and an accepting
\* verifier; a digest mismatch is InvalidPublicInputsHash with no verifier
\* call, a rejected proof is InvalidProof, and neither changes the session.
C1_ProofGate ==
    \A s \in SessionIds :
      games[s] # Absent =>
        IF contract = "battleship" THEN C1_ShotGate(games[s], s)
        ELSE C1_GuessGate(games[s], s)

\* C1 witness: a shot is pending and a resolve_shot call carrying a payload
\* the verifier accepts is refused for its digest.
C1_Witness ==
    /\ contract = "battleship"
    /\ games[1] # Absent
    /\ games[1].pending_shot # Absent
    /\ games[1].hits_on_p2 > 0
    /\ \E is_hit \in BOOLEAN :
         LET d == games[1].pending_shot.shooter
             def == IF d = games[1].player1 THEN games[1].player2 ELSE games[1].player1
             r == resolve_shot(games[1], 1, def, is_hit, 0, <<1>>, WrongHash, TRUE)
         IN r.err = "InvalidPublicInputsHash" /\ ~r.verifier

\* The bitmap of the shots a player has had resolved, and the hit counter
\* of a player's board.
ShotsBy(g, shooter) == IF shooter = g.player1 THEN g.shots_p1_to_p2 ELSE g.shots_p2_to_p1

HitsOn(g, defender) == IF defender = g.player1 THEN g.hits_on_p1 ELSE g.hits_on_p2

Other(g, player) == IF player = g.player1 THEN g.player2 ELSE g.player1

\* C2 for one stored Battleship session with a pending shot: start_game,
\* commit_board and fire leave the pending shot as it is; resolve_shot removes
\* it exactly when it succeeds, and then the shot's bit is newly set in the
\* shooter's bitmap and the defender's hit counter has grown by one for a hit
\* and not at all for a miss; the same call repeated on the result is refused
\* with NoPendingShot (GameAlreadyEnded if the game ended) and changes nothing.
C2_Session(g, s) ==
    LET p == g.pending_shot
        bit == p.y * BOARD_SIZE + p.x
    IN
    /\ \A pr \in StartPairs, pts \in Stakes, hubOk \in BOOLEAN :
          start_game(g, s, pr[1], pr[2], pts, pts, hubOk).game.pending_shot = p
    /\ \A player \in Addresses, c \in Commitments :
          commit_board(g, s, player, c).game.pending_shot = p
    /\ \A shooter \in Addresses, xy \in FireInputs(g) :
          fire(g, s, shooter, xy[1], xy[2]).game.pending_shot = p
    /\ \A defender \in Addresses, is_hit \in BOOLEAN, sunk_ship \in SunkInputs,
          payload \in Payloads, hubOk \in BOOLEAN :
       \A h \in ShotHashInputs(g, s, defender, is_hit, sunk_ship) :
         LET r == resolve_shot(g, s, defender, is_hit, sunk_ship, payload, h, hubOk)
             again == resolve_shot(r.game, s, defender, is_hit, sunk_ship, payload, h, hubOk)
         IN IF r.err # "Ok" THEN r.game.pending_shot = p
            ELSE /\ r.game.pending_shot = Absent
                 /\ bit \notin ShotsBy(g, p.shooter)
                 /\ ShotsBy(r.game, p.shooter) = ShotsBy(g, p.shooter) \cup {bit}
                 /\ HitsOn(r.game, defender)
                      = HitsOn(g, defender) + (IF is_hit THEN 1 ELSE 0)
                 /\ again.err = (IF r.game.phase = "Ended" THEN "GameAlreadyEnded"
                                                            ELSE "NoPendingShot")
                 /\ again.game = r.game

\* C2.  Exactly-once commit (Battleship): in every reachable state with a
\* pending shot, only a successful resolve_shot removes or replaces the pending
\* shot, that call also sets the shot's bit and updates the hit counter, and
\* repeating it is refused and changes nothing.
C2_ExactlyOnce ==
    contract = "battleship" =>
      \A s \in SessionIds :
        (games[s] # Absent /\ games[s].pending_shot # Absent) => C2_Session(games[s], s)

\* C2 witness: a shot has just been resolved as a hit and the game goes on;
\* the resolving call, made again, finds no pending shot.
C2_Witness ==
    /\ contract = "battleship"
    /\ last.op = "resolve_shot"
    /\ last.ret.is_hit
    /\ games[1].phase = "InProgress"
    /\ games[1].pending_shot = Absent
    /\ resolve_shot(games[1], 1, games[1].turn, TRUE, 0, <<1>>, WrongHash, TRUE).err
         = "NoPendingShot"

\* The two players of a stored session of either game.
PlayersOf(g) ==
    IF contract = "battleship" THEN {g.player1, g.player2} ELSE {g.word_setter, g.guesser}

\* C3, the state part: phase = Ended exactly when the winner is set, and the
\* winner is one of the session's two players.
C3_State ==
    \A s \in SessionIds :
      games[s] # Absent =>
        /\ (games[s].phase = "Ended") <=> (games[s].winner # None)
        /\ games[s].winner # None => games[s].winner \in PlayersOf(games[s])

\* C3, the step part: the step that makes the phase Ended is the step that
\* writes the winner, and a winner once written stays.
C3_Step ==
    \A s \in SessionIds :
      games[s] # Absent =>
        /\ games'[s] # Absent
        /\ (games[s].phase # "Ended" /\ games'[s].phase = "Ended")
             => (games[s].winner = None /\ games'[s].winner # None)
        /\ games[s].winner # None => games'[s].winner = games[s].winner

\* C3.  In both games, in every reachable state phase = Ended iff the winner
\* is set; the winner is written by the step that sets Ended, is one of the
\* two players, and never changes afterwards.
C3_WinnerWithEnded == []C3_State /\ [][C3_Step]_vars

\* C3 witness: a Wordle session that the word setter has just won.
C3_Witness ==
    /\ contract = "wordle"
    /\ last.op = "resolve_guess"
    /\ games[1].phase = "Ended"
    /\ games[1].winner = games[1].word_setter

\* C4.  Battleship: on an Ended session every commit_board, fire and
\* resolve_shot returns GameAlreadyEnded whatever its arguments, and no call
\* (start_game included) changes the stored session.
C4_EndedIsFinal ==
    contract = "battleship" =>
      \A s \in SessionIds :
        (games[s] # Absent /\ games[s].phase = "Ended") =>
          LET g == games[s] IN
          /\ \A pr \in StartPairs, pts \in Stakes, hubOk \in BOOLEAN :
                start_game(g, s, pr[1], pr[2], pts, pts, hubOk).game = g
          /\ \A player \in Addresses, c \in Commitments :
                LET r == commit_board(g, s, player, c)
                IN r.err = "GameAlreadyEnded" /\ r.game = g
          /\ \A shooter \in Addresses, xy \in FireInputs(g) :
                LET r == fire(g, s, shooter, xy[1], xy[2])
                IN r.err = "GameAlreadyEnded" /\ r.game = g
          /\ \A defender \in Addresses, is_hit \in BOOLEAN, sunk_ship \in SunkInputs,
                payload \in Payloads, hubOk \in BOOLEAN :
             \A h \in ShotHashInputs(g, s, defender, is_hit, sunk_ship) :
                LET r == resolve_shot(g, s, defender, is_hit, sunk_ship, payload, h, hubOk)
                IN r.err = "GameAlreadyEnded" /\ r.game = g

\* C4 witness: player2 has won and player1's fire is refused because the game
\* has ended.
C4_Witness ==
    /\ contract = "battleship"
    /\ games[1] # Absent
    /\ games[1].phase = "Ended"
    /\ games[1].winner = games[1].player2
    /\ fire(games[1], 1, games[1].player1, 9, 9).err = "GameAlreadyEnded"

\* C5.  Wordle: on an Ended session every resolve_guess returns
\* GameAlreadyEnded and leaves the session unchanged.
C5_ResolveAfterEnd ==
    contract = "wordle" =>
      \A s \in SessionIds :
        (games[s] # Absent /\ games[s].phase = "Ended") =>
          \A word_setter \in Addresses, feedback \in FeedbackInputs,
             is_correct \in BOOLEAN, payload \in Payloads, hubOk \in BOOLEAN :
          \A h \in GuessHashInputs(games[s], s, word_setter, feedback, is_correct) :
            LET r == ResolveGuessCommand_execute(games[s], s, word_setter, feedback,
                                                 is_correct, payload, h, hubOk)
            IN r.err = "GameAlreadyEnded" /\ r.game = games[s]

\* The coordinates of the bits set in a bitmap.
CellsOf(bits) == {Cell(k) : k \in bits}

\* C6 as stated.  Battleship: for every cell in the bitmap of a player S,
\* every fire by S at that cell returns ShotAlreadyResolved and records no
\* pending shot.
C6_AlwaysShotAlreadyResolved ==
    contract = "battleship" =>
      \A s \in SessionIds :
        games[s] # Absent =>
          \A S \in PlayersOf(games[s]) :
          \A xy \in CellsOf(ShotsBy(games[s], S)) :
            LET r == fire(games[s], s, S, xy[1], xy[2])
            IN r.err = "ShotAlreadyResolved" /\ r.game = games[s]

\* C6 for one stored Battleship session.  A fire by player S at a cell of S's
\* bitmap is always refused and changes nothing; the error is
\* ShotAlreadyResolved when the call passes the earlier checks (the game is in
\* progress, no shot is pending, it is S's turn) and otherwise the error of the
\* first of those checks that fails.  The opponent's fire at the same cell is
\* accepted when it is the opponent's turn and the cell is not in the
\* opponent's own bitmap.  A pending shot is never at a cell of its shooter's
\* bitmap, and a successful resolve_shot sets a bit that was clear.
C6_Session(g, s) ==
    /\ \A S \in PlayersOf(g) :
       \A xy \in CellsOf(ShotsBy(g, S)) :
         LET r == fire(g, s, S, xy[1], xy[2])
             o == fire(g, s, Other(g, S), xy[1], xy[2])
         IN /\ r.err # "Ok" /\ r.game = g
            /\ r.err = (IF g.phase = "Ended" THEN "GameAlreadyEnded"
                        ELSE IF g.pending_shot # Absent THEN "PendingShotExists"
                        ELSE IF g.turn # S THEN "NotYourTurn"
                        ELSE "ShotAlreadyResolved")
            /\ (/\ g.phase = "InProgress" /\ g.pending_shot = Absent
                /\ g.turn = Other(g, S)
                /\ xy \notin CellsOf(ShotsBy(g, Other(g, S))))
                 => /\ o.err = "Ok"
                    /\ o.game.pending_shot = [shooter |-> Other(g, S),
                                              x |-> xy[1], y |-> xy[2]]
    /\ g.pending_shot # Absent =>
         LET p == g.pending_shot
             bit == p.y * BOARD_SIZE + p.x
         IN /\ bit \notin ShotsBy(g, p.shooter)
            /\ \A defender \in Addresses, is_hit \in BOOLEAN, sunk_ship \in SunkInputs,
                  payload \in Payloads, hubOk \in BOOLEAN :
               \A h \in ShotHashInputs(g, s, defender, is_hit, sunk_ship) :
                 LET r == resolve_shot(g, s, defender, is_hit, sunk_ship, payload, h, hubOk)
                 IN r.err = "Ok" =>
                      /\ ShotsBy(r.game, p.shooter) = ShotsBy(g, p.shooter) \cup {bit}
                      /\ ShotsBy(r.game, defender) = ShotsBy(g, defender)

\* C6, amended.  Battleship: after a shot by S at (x,y) has been resolved,
\* every later fire by S at (x,y) fails and records no pending shot, with
\* ShotAlreadyResolved whenever the call gets as far as the duplicate check
\* and with GameAlreadyEnded, PendingShotExists or NotYourTurn when an earlier
\* check refuses it; the opponent's shots at (x,y) are unaffected; no
\* (shooter, coordinate) pair is resolved twice.
C6_NoDuplicateShot ==
    contract = "battleship" =>
      \A s \in SessionIds : games[s] # Absent => C6_Session(games[s], s)

\* C6 witness: player1's shot at (0,0) has been resolved, it is player1's
\* turn again with nothing pending, and player1's fire at (0,0) is refused as
\* a duplicate while player2 has (0,0) in its own bitmap too.
C6_Witness ==
    /\ contract = "battleship"
    /\ games[1] # Absent
    /\ games[1].phase = "InProgress"
    /\ games[1].pending_shot = Absent
    /\ games[1].turn = games[1].player1
    /\ 0 \in games[1].shots_p1_to_p2
    /\ 0 \in games[1].shots_p2_to_p1
    /\ fire(games[1], 1, games[1].player1, 0, 0).err = "ShotAlreadyResolved"

\* C7.  Wordle: a guess content already resolved in the session is refused by
\* guess, and when it is the pending guess no resolve_guess succeeds; so the
\* resolved guesses of a session are pairwise different.
C7_DuplicateGuessRejected ==
    contract = "wordle" =>
      \A s \in SessionIds :
        games[s] # Absent =>
          LET g == games[s] IN
          /\ \A i \in 1..Len(g.guesses) :
               GuessCommand_execute(g, s, g.guesser, g.guesses[i]).err # "Ok"
          /\ (\E i \in 1..Len(g.guesses) : g.guesses[i] = g.pending_guess) =>
               \A word_setter \in Addresses, feedback \in FeedbackInputs,
                  is_correct \in BOOLEAN, payload \in Payloads, hubOk \in BOOLEAN :
               \A h \in GuessHashInputs(g, s, word_setter, feedback, is_correct) :
                 ResolveGuessCommand_execute(g, s, word_setter, feedback, is_correct,
                                             payload, h, hubOk).err # "Ok"
          /\ \A i, j \in 1..Len(g.guesses) : g.guesses[i] = g.guesses[j] => i = j

\* C8.  At most one pending move.  Battleship: while a shot is pending every
\* fire, whoever calls it and wherever it aims, returns PendingShotExists and
\* leaves the session as stored.  Wordle: while a guess is pending every guess
\* is refused and leaves the session as stored; a guess of five letters of the
\* alphabet by the session's guesser returns PendingGuessExists (a call with a
\* letter out of range or by another address is refused before that check,
\* with InvalidLetterValue or NotGuesser).
C8_OnePendingMove ==
    \A s \in SessionIds :
      games[s] # Absent =>
        LET g == games[s] IN
        IF contract = "battleship"
        THEN g.pending_shot # Absent =>
               \A shooter \in Addresses,
                  xy \in FireInputs(g) \cup CellsOf(0..(BOARD_SIZE + 1)) :
                 LET r == fire(g, s, shooter, xy[1], xy[2])
                 IN r.err = "PendingShotExists" /\ r.game = g
        ELSE g.pending_guess # NoGuess =>
               \A guesser \in Addresses, letters \in GuessInputs :
                 LET r == GuessCommand_execute(g, s, guesser, letters)
                 IN /\ r.err # "Ok" /\ r.game = g
                    /\ r.err = (IF Guess_new(letters) # "Ok" THEN "InvalidLetterValue"
                                ELSE IF guesser # g.guesser THEN "NotGuesser"
                                ELSE "PendingGuessExists")

\* C8 witness: a second guess is pending in a Wordle session and the guesser's
\* attempt to submit another word is refused with PendingGuessExists.
C8_Witness ==
    /\ contract = "wordle"
    /\ games[1] # Absent
    /\ games[1].guess_count = 1
    /\ games[1].pending_guess = FirstGuess
    /\ GuessCommand_execute(games[1], 1, games[1].guesser, <<0, 1, 2, 3, 4>>).err
         = "PendingGuessExists"

\* C9.  Battleship win.  A successful resolve_shot that brings the defender's
\* hit counter to TOTAL_SHIP_CELLS stores phase = Ended, winner = the shooter
\* of the resolved shot, no turn and no pending shot, and returns winner =
\* shooter and next_turn = none; every other successful resolve_shot leaves the
\* game in progress without a winner; start_game, commit_board and fire never
\* store an Ended session; in every Ended session the loser's hit counter is
\* exactly TOTAL_SHIP_CELLS and in every other session both counters are below it.
C9_WinAtSeventeen ==
    contract = "battleship" =>
      \A s \in SessionIds :
        games[s] # Absent =>
          LET g == games[s] IN
          /\ IF g.phase = "Ended"
             THEN /\ HitsOn(g, Other(g, g.winner)) = TOTAL_SHIP_CELLS
                  /\ HitsOn(g, g.winner) < TOTAL_SHIP_CELLS
                  /\ g.turn = None /\ g.pending_shot = Absent
             ELSE g.hits_on_p1 < TOTAL_SHIP_CELLS /\ g.hits_on_p2 < TOTAL_SHIP_CELLS
          /\ g.phase # "Ended" =>
               /\ \A pr \in StartPairs, pts \in Stakes, hubOk \in BOOLEAN :
                    start_game(g, s, pr[1], pr[2], pts, pts, hubOk).game.phase # "Ended"
               /\ \A player \in Addresses, c \in Commitments :
                    commit_board(g, s, player, c).game.phase # "Ended"
               /\ \A shooter \in Addresses, xy \in FireInputs(g) :
                    fire(g, s, shooter, xy[1], xy[2]).game.phase # "Ended"
          /\ \A defender \in Addresses, is_hit \in BOOLEAN, sunk_ship \in SunkInputs,
                payload \in Payloads, hubOk \in BOOLEAN :
             \A h \in ShotHashInputs(g, s, defender, is_hit, sunk_ship) :
               LET r == resolve_shot(g, s, defender, is_hit, sunk_ship, payload, h, hubOk)
               IN r.err = "Ok" =>
                    IF HitsOn(r.game, defender) = TOTAL_SHIP_CELLS
                    THEN /\ r.game.phase = "Ended"
                         /\ r.game.winner = g.pending_shot.shooter
                         /\ r.game.turn = None
                         /\ r.game.pending_shot = Absent
                         /\ r.ret.winner = g.pending_shot.shooter
                         /\ r.ret.next_turn = None
                    ELSE /\ r.game.phase = "InProgress"
                         /\ r.game.winner = None
                         /\ r.ret.winner = None
                         /\ r.ret.next_turn = defender

\* C9 witness: player1's shot has just been resolved as the seventeenth hit on
\* player2's board and the call returned player1 as the winner.
C9_Witness ==
    /\ contract = "battleship"
    /\ last.op = "resolve_shot"
    /\ games[1].phase = "Ended"
    /\ games[1].hits_on_p2 = TOTAL_SHIP_CELLS
    /\ games[1].winner = games[1].player1
    /\ last.ret.winner = games[1].player1
    /\ last.ret.next_turn = None

\* C10.  Wordle win rule.  Every successful resolve_guess adds one to
\* guess_count; with is_correct = true it ends the session with the guesser as
\* winner, the sixth guess included; with is_correct = false it ends the
\* session with the word setter as winner exactly when guess_count becomes
\* MAX_GUESSES; otherwise the phase stays InProgress with no winner.
C10_WinRule ==
    contract = "wordle" =>
      \A s \in SessionIds :
        games[s] # Absent =>
          LET g == games[s] IN
          \A word_setter \in Addresses, feedback \in FeedbackInputs,
             is_correct \in BOOLEAN, payload \in Payloads, hubOk \in BOOLEAN :
          \A h \in GuessHashInputs(g, s, word_setter, feedback, is_correct) :
            LET r == ResolveGuessCommand_execute(g, s, word_setter, feedback,
                                                 is_correct, payload, h, hubOk)
            IN r.err = "Ok" =>
                 /\ r.game.guess_count = g.guess_count + 1
                 /\ r.game.guess_count <= MAX_GUESSES
                 /\ IF is_correct
                    THEN /\ r.game.phase = "Ended" /\ r.game.winner = g.guesser
                         /\ r.ret.game_ended /\ r.ret.winner = g.guesser
                    ELSE IF r.game.guess_count = MAX_GUESSES
                    THEN /\ r.game.phase = "Ended" /\ r.game.winner = g.word_setter
                         /\ r.ret.game_ended /\ r.ret.winner = g.word_setter
                    ELSE /\ r.game.phase = "InProgress" /\ r.game.winner = None
                         /\ ~r.ret.game_ended /\ r.ret.winner = None

\* C10 witness: the sixth guess has just been resolved as correct and the
\* guesser has won.
C10_Witness ==
    /\ contract = "wordle"
    /\ last.op = "resolve_guess"
    /\ last.ret.is_correct
    /\ games[1].guess_count = MAX_GUESSES
    /\ games[1].phase = "Ended"
    /\ games[1].winner = games[1].guesser

\* C11.  Wordle guess cap.  In every reachable state guess_count is at most
\* MAX_GUESSES; a session with MAX_GUESSES resolved guesses is Ended, and the
\* word setter is its winner when none of the resolved guesses was the
\* winning one; on it every guess returns GameAlreadyEnded (InvalidLetterValue
\* for letters outside the alphabet); no guess on any reachable session
\* returns MaxGuessesReached.
C11_GuessCap ==
    contract = "wordle" =>
      \A s \in SessionIds :
        games[s] # Absent =>
          LET g == games[s] IN
          /\ g.guess_count <= MAX_GUESSES
          /\ g.guess_count = Len(g.guesses)
          /\ g.guess_count = MAX_GUESSES =>
               /\ g.phase = "Ended"
               /\ g.winner \in {g.word_setter, g.guesser}
               /\ (last.op = "resolve_guess" /\ ~last.ret.is_correct)
                    => g.winner = g.word_setter
          /\ \A guesser \in Addresses, letters \in GuessInputs :
               LET r == GuessCommand_execute(g, s, guesser, letters)
               IN /\ r.err # "MaxGuessesReached"
                  /\ (g.phase = "Ended" /\ Guess_new(letters) = "Ok")
                       => (r.err = "GameAlreadyEnded" /\ r.game = g)

\* C11 witness: the sixth guess has just been resolved as incorrect, the word
\* setter has won, and the guesser's seventh guess is refused because the
\* game has ended.
C11_Witness ==
    /\ contract = "wordle"
    /\ last.op = "resolve_guess"
    /\ ~last.ret.is_correct
    /\ last.ret.guess_number = MAX_GUESSES
    /\ games[1].phase = "Ended"
    /\ games[1].winner = games[1].word_setter
    /\ GuessCommand_execute(games[1], 1, games[1].guesser, FirstGuess).err
         = "GameAlreadyEnded"

\* All five feedback codes are Correct (2).
AllCorrect(feedback) == Len(feedback) = WORD_LENGTH /\ \A i \in 1..WORD_LENGTH : feedback[i] = 2

\* C12.  Wordle: every resolve_guess whose is_correct flag differs from "all
\* five feedback codes are 2" is rejected and leaves the session unchanged.
C12_FlagMatchesFeedback ==
    contract = "wordle" =>
      \A s \in SessionIds :
        games[s] # Absent =>
          \A word_setter \in Addresses, feedback \in FeedbackInputs,
             is_correct \in BOOLEAN, payload \in Payloads, hubOk \in BOOLEAN :
          \A h \in GuessHashInputs(games[s], s, word_setter, feedback, is_correct) :
            LET r == ResolveGuessCommand_execute(games[s], s, word_setter, feedback,
                                                 is_correct, payload, h, hubOk)
            IN is_correct # AllCorrect(feedback) => (r.err # "Ok" /\ r.game = games[s])

\* C13.  Wordle: every resolve_guess whose word_setter argument is not the
\* session's stored word setter is rejected and leaves the session unchanged.
C13_ResolverIsWordSetter ==
    contract = "wordle" =>
      \A s \in SessionIds :
        games[s] # Absent =>
          \A word_setter \in Addresses, feedback \in FeedbackInputs,
             is_correct \in BOOLEAN, payload \in Payloads, hubOk \in BOOLEAN :
          \A h \in GuessHashInputs(games[s], s, word_setter, feedback, is_correct) :
            LET r == ResolveGuessCommand_execute(games[s], s, word_setter, feedback,
                                                 is_correct, payload, h, hubOk)
            IN word_setter # games[s].word_setter => (r.err # "Ok" /\ r.game = games[s])

\* C14.  Battleship: while a shot is pending, every resolve_shot whose
\* defender is not the opponent of the pending shot's shooter (the shooter
\* itself or a third address) returns InvalidDefender without consulting the
\* verifier and leaves the session as stored; a resolve_shot that succeeds
\* names that opponent, and its digest is the one built over the opponent's
\* stored board commitment.
C14_DefenderIsOpponent ==
    contract = "battleship" =>
      \A s \in SessionIds :
        (games[s] # Absent /\ games[s].pending_shot # Absent) =>
          LET g == games[s]
              p == g.pending_shot
              opp == Other(g, p.shooter)
          IN
          /\ p.shooter \in PlayersOf(g)
          /\ \A defender \in Addresses, is_hit \in BOOLEAN, sunk_ship \in SunkInputs,
                payload \in Payloads, hubOk \in BOOLEAN :
             \A h \in ShotHashInputs(g, s, defender, is_hit, sunk_ship) :
               LET r == resolve_shot(g, s, defender, is_hit, sunk_ship, payload, h, hubOk)
               IN /\ defender # opp =>
                       (r.err = "InvalidDefender" /\ r.game = g /\ ~r.verifier)
                  /\ r.err = "Ok" =>
                       /\ defender = opp
                       /\ h = build_public_inputs_hash(s, opp, p.shooter, p.x, p.y, is_hit,
                                                       sunk_ship, StoredBoard(g, opp))

\* C14 witness: player2's shot is pending; resolve_shot naming player2 (the
\* shooter) or a third address as defender is refused with InvalidDefender,
\* whichever digest and payload it carries.
C14_Witness ==
    /\ contract = "battleship"
    /\ games[1] # Absent
    /\ games[1].pending_shot # Absent
    /\ games[1].pending_shot.shooter = games[1].player2
    /\ resolve_shot(games[1], 1, games[1].player2, TRUE, 0, <<1>>,
                    ShotDigest(games[1], 1, games[1].player2, TRUE, 0), TRUE).err
         = "InvalidDefender"
    /\ resolve_shot(games[1], 1, "GC", TRUE, 0, <<1>>,
                    ShotDigest(games[1], 1, "GC", TRUE, 0), TRUE).err
         = "InvalidDefender"

\* The sunk mask of a player's board.
SunkOn(g, defender) ==
    IF defender = g.player1 THEN g.sunk_ships_on_p1 ELSE g.sunk_ships_on_p2

\* The mask bit of the ship a sunk_ship argument in 1..5 names.
SunkBit(sunk_ship) == ship_bit(parse_ship_type(sunk_ship).ship)

\* C15.  Battleship: while a shot is pending, every resolve_shot on the
\* shooter's opponent that reports a hit and names a ship (1..5) whose bit is
\* already in that defender's sunk mask is refused and leaves the session as
\* stored (shot still pending; bitmap, hit counter and sunk mask unchanged);
\* the error is ShipAlreadySunk when the call passes the proof gate.  A call
\* that names a ship not yet in the defender's mask is not refused for the
\* other board's mask: with the matching digest and an accepted payload it
\* succeeds, adds exactly that bit to the defender's mask and leaves the
\* other mask alone.
C15_SunkOnce ==
    contract = "battleship" =>
      \A s \in SessionIds :
        (games[s] # Absent /\ games[s].pending_shot # Absent) =>
          LET g == games[s]
              opp == Other(g, g.pending_shot.shooter)
          IN
          \A sunk_ship \in SunkInputs \cap (1..5), payload \in Payloads :
          \A h \in ShotHashInputs(g, s, opp, TRUE, sunk_ship) :
            LET r == resolve_shot(g, s, opp, TRUE, sunk_ship, payload, h, TRUE)
                passes == /\ h = ShotDigest(g, s, opp, TRUE, sunk_ship)
                          /\ MockVerifier_verify(StoredBoard(g, opp), h, payload)
            IN IF SunkBit(sunk_ship) \in SunkOn(g, opp)
               THEN /\ r.err # "Ok" /\ r.game = g
                    /\ passes => r.err = "ShipAlreadySunk"
               ELSE passes =>
                      /\ r.err = "Ok"
                      /\ SunkOn(r.game, opp) = SunkOn(g, opp) \cup {SunkBit(sunk_ship)}
                      /\ SunkOn(r.game, g.pending_shot.shooter)
                           = SunkOn(g, g.pending_shot.shooter)

\* C15 witness: the Destroyer is sunk on both boards, player2's shot at a
\* fresh cell is pending, and a proved resolve_shot that reports the
\* Destroyer of player1 sunk again is refused with ShipAlreadySunk.
C15_Witness ==
    /\ contract = "battleship"
    /\ games[1] # Absent
    /\ games[1].pending_shot # Absent
    /\ games[1].pending_shot.shooter = games[1].player2
    /\ 4 \in games[1].sunk_ships_on_p1
    /\ 4 \in games[1].sunk_ships_on_p2
    /\ resolve_shot(games[1], 1, games[1].player1, TRUE, 5, <<1>>,
                    ShotDigest(games[1], 1, games[1].player1, TRUE, 5), TRUE).err
         = "ShipAlreadySunk"

\* C16.  Battleship: while a shot is pending, every resolve_shot on the
\* shooter's opponent with sunk_ship > 5 returns InvalidShipType (whatever
\* is_hit), and every one with sunk_ship in 1..5 and is_hit = false returns
\* InvalidSunkShip; both are returned without the verifier being consulted,
\* whatever the digest and the payload, and leave the session as stored.  A
\* successful resolve_shot changes the defender's sunk mask only when it also
\* counts a hit, so a board never has more sunk ships than hits.
C16_SunkNeedsHit ==
    contract = "battleship" =>
      \A s \in SessionIds :
        games[s] # Absent =>
          LET g == games[s] IN
          /\ Cardinality(g.sunk_ships_on_p1) <= g.hits_on_p1
          /\ Cardinality(g.sunk_ships_on_p2) <= g.hits_on_p2
          /\ g.pending_shot # Absent =>
               LET opp == Other(g, g.pending_shot.shooter) IN
               \A is_hit \in BOOLEAN, sunk_ship \in SunkInputs, payload \in Payloads,
                  hubOk \in BOOLEAN :
               \A h \in ShotHashInputs(g, s, opp, is_hit, sunk_ship) :
                 LET r == resolve_shot(g, s, opp, is_hit, sunk_ship, payload, h, hubOk)
                 IN /\ sunk_ship > 5 =>
                         (r.err = "InvalidShipType" /\ ~r.verifier /\ r.game = g)
                    /\ (sunk_ship \in 1..5 /\ ~is_hit) =>
                         (r.err = "InvalidSunkShip" /\ ~r.verifier /\ r.game = g)
                    /\ (r.err = "Ok" /\ SunkOn(r.game, opp) # SunkOn(g, opp)) =>
                         /\ is_hit
                         /\ HitsOn(r.game, opp) = HitsOn(g, opp) + 1

\* C16 witness: after a ship of player2 has been reported sunk, a shot is
\* pending and a resolve_shot carrying the digest of its own arguments and an
\* accepted payload is refused with InvalidSunkShip (a Destroyer on a miss)
\* and with InvalidShipType (ship number 6).
C16_Witness ==
    /\ contract = "battleship"
    /\ games[1] # Absent
    /\ games[1].pending_shot # Absent
    /\ games[1].sunk_ships_on_p2 # {}
    /\ LET opp == Other(games[1], games[1].pending_shot.shooter)
       IN /\ resolve_shot(games[1], 1, opp, FALSE, 5, <<1>>,
                          ShotDigest(games[1], 1, opp, FALSE, 5), TRUE).err
               = "InvalidSunkShip"
          /\ resolve_shot(games[1], 1, opp, TRUE, 6, <<1>>,
                          ShotDigest(games[1], 1, opp, TRUE, 6), TRUE).err
               = "InvalidShipType"

\* The position of a phase in the lifecycle.
PhaseRank(phase) ==
    IF phase \in {"WaitingForBoards", "WaitingForWord"} THEN 0
    ELSE IF phase = "InProgress" THEN 1
    ELSE 2

\* C17, one step: a stored session stays stored, its phase does not move
\* back and does not go from the waiting phase straight to Ended; a session
\* that is created starts in the waiting phase.
C17_Step ==
    \A s \in SessionIds :
      IF games[s] = Absent
      THEN games'[s] # Absent => PhaseRank(games'[s].phase) = 0
      ELSE /\ games'[s] # Absent
           /\ PhaseRank(games'[s].phase) >= PhaseRank(games[s].phase)
           /\ PhaseRank(games'[s].phase) <= PhaseRank(games[s].phase) + 1

\* C17.  In both games every step moves the phase of a session forward along
\* waiting -> InProgress -> Ended or leaves it: never backwards, and never
\* from the waiting phase directly to Ended.
C17_PhaseForward == [][C17_Step]_vars

\* C17 witness: the word setter's commit_word has just moved a Wordle
\* session from WaitingForWord to InProgress.
C17_Witness ==
    /\ contract = "wordle"
    /\ last.op = "commit_word"
    /\ games[1].phase = "InProgress"
    /\ games[1].word_commitment # None
    /\ games[1].guess_count = 0

\* The error a repeated commit gets in a phase.
RecommitError(phase) ==
    IF phase = "Ended" THEN "GameAlreadyEnded"
    ELSE IF phase = "InProgress" THEN "InvalidPhase"
    ELSE "BoardAlreadyCommitted"

\* C18, the state part: a commit by a player whose commitment is stored is
\* refused, whatever value it carries, with BoardAlreadyCommitted in the
\* waiting phase, InvalidPhase in progress and GameAlreadyEnded after the end,
\* and changes nothing.  (A Wordle session leaves the waiting phase with the
\* commit, so its repeated commit gets InvalidPhase or GameAlreadyEnded.)
C18_State ==
    \A s \in SessionIds :
      games[s] # Absent =>
        LET g == games[s] IN
        IF contract = "battleship"
        THEN \A player \in PlayersOf(g), c \in Commitments :
               StoredBoard(g, player) # None =>
                 LET r == commit_board(g, s, player, c)
                 IN r.err = RecommitError(g.phase) /\ r.game = g
        ELSE \A c \in Commitments :
               g.word_commitment # None =>
                 LET r == CommitWordCommand_execute(g, s, g.word_setter, c)
                 IN /\ g.phase # "WaitingForWord"
                    /\ r.err = RecommitError(g.phase) /\ r.game = g

\* C18, the step part: a stored commitment is the same after every step, and
\* a step that stores one is a commit_board / commit_word.
C18_Step ==
    \A s \in SessionIds :
      games[s] # Absent =>
        /\ games'[s] # Absent
        /\ IF contract = "battleship"
           THEN /\ games[s].board_commitment_p1 # None =>
                     games'[s].board_commitment_p1 = games[s].board_commitment_p1
                /\ games[s].board_commitment_p2 # None =>
                     games'[s].board_commitment_p2 = games[s].board_commitment_p2
                /\ (\/ games'[s].board_commitment_p1 # games[s].board_commitment_p1
                    \/ games'[s].board_commitment_p2 # games[s].board_commitment_p2)
                     => last'.op = "commit_board"
           ELSE /\ games[s].word_commitment # None =>
                     games'[s].word_commitment = games[s].word_commitment
                /\ games'[s].word_commitment # games[s].word_commitment
                     => last'.op = "commit_word"

\* C18.  In both games a commitment once stored never changes: a second
\* commit by the same player is rejected (BoardAlreadyCommitted while waiting,
\* InvalidPhase or GameAlreadyEnded later) and no other operation writes a
\* commitment field.
C18_CommitmentImmutable == []C18_State /\ [][C18_Step]_vars

\* C18 witness: player2 has committed its board, player1 has not, and
\* player2's commit of another board is refused with BoardAlreadyCommitted.
C18_Witness ==
    /\ contract = "battleship"
    /\ games[1] # Absent
    /\ games[1].phase = "WaitingForBoards"
    /\ games[1].board_commitment_p1 = None
    /\ games[1].board_commitment_p2 = "c22"
    /\ commit_board(games[1], 1, games[1].player2, "c11").err = "BoardAlreadyCommitted"

\* C19.  Battleship: a session is in WaitingForBoards exactly while a board
\* commitment is missing.  In that phase turn is none, every fire and every
\* resolve_shot returns InvalidPhase and changes nothing, a player whose board
\* is missing can commit it, and the commit that stores the second board,
\* whichever player makes it, gives phase InProgress with turn = player1
\* while the commit that stores the first leaves the phase and the turn.
C19_BothBoardsStartPlay ==
    contract = "battleship" =>
      \A s \in SessionIds :
        games[s] # Absent =>
          LET g == games[s] IN
          /\ (g.phase = "WaitingForBoards")
               <=> (g.board_commitment_p1 = None \/ g.board_commitment_p2 = None)
          /\ g.phase = "WaitingForBoards" =>
               /\ g.turn = None /\ g.pending_shot = Absent
               /\ \A shooter \in Addresses, xy \in FireInputs(g) :
                    LET r == fire(g, s, shooter, xy[1], xy[2])
                    IN r.err = "InvalidPhase" /\ r.game = g
               /\ \A defender \in Addresses, is_hit \in BOOLEAN, sunk_ship \in SunkInputs,
                     payload \in Payloads, hubOk \in BOOLEAN :
                  \A h \in ShotHashInputs(g, s, defender, is_hit, sunk_ship) :
                    LET r == resolve_shot(g, s, defender, is_hit, sunk_ship, payload, h, hubOk)
                    IN r.err = "InvalidPhase" /\ r.game = g
               /\ \A player \in PlayersOf(g), c \in Commitments :
                    LET r == commit_board(g, s, player, c)
                    IN StoredBoard(g, player) = None =>
                         /\ r.err = "Ok"
                         /\ StoredBoard(r.game, player) = c
                         /\ IF StoredBoard(g, Other(g, player)) # None
                            THEN r.game.phase = "InProgress" /\ r.game.turn = g.player1
                            ELSE r.game.phase = "WaitingForBoards" /\ r.game.turn = None

\* C19 witness: the second board has just been committed; the game is in
\* progress, nothing has been fired yet, and it is player1's turn.
C19_Witness ==
    /\ contract = "battleship"
    /\ last.op = "commit_board"
    /\ games[1].phase = "InProgress"
    /\ games[1].board_commitment_p1 # None
    /\ games[1].board_commitment_p2 # None
    /\ games[1].turn = games[1].player1
    /\ fire(games[1], 1, games[1].player1, 0, 0).err = "Ok"
    /\ fire(games[1], 1, games[1].player2, 0, 0).err = "NotYourTurn"

\* C20.  Battleship: every successful resolve_shot that does not end the game
\* stores turn = defender, for a hit as for a miss, and no pending shot; it
\* adds 1 to the defender's hit counter for a hit and nothing for a miss,
\* leaves the shooter's own hit counter, and returns the claimed is_hit,
\* next_turn = defender and winner = none.
C20_TurnPasses ==
    contract = "battleship" =>
      \A s \in SessionIds :
        (games[s] # Absent /\ games[s].pending_shot # Absent) =>
          LET g == games[s]
              shooter == g.pending_shot.shooter
          IN
          \A defender \in Addresses, is_hit \in BOOLEAN, sunk_ship \in SunkInputs,
             payload \in Payloads, hubOk \in BOOLEAN :
          \A h \in ShotHashInputs(g, s, defender, is_hit, sunk_ship) :
            LET r == resolve_shot(g, s, defender, is_hit, sunk_ship, payload, h, hubOk)
            IN (r.err = "Ok" /\ r.game.phase # "Ended") =>
                 /\ r.game.phase = "InProgress"
                 /\ defender # shooter
                 /\ r.game.turn = defender
                 /\ r.game.pending_shot = Absent
                 /\ HitsOn(r.game, defender)
                      = HitsOn(g, defender) + (IF is_hit THEN 1 ELSE 0)
                 /\ HitsOn(r.game, shooter) = HitsOn(g, shooter)
                 /\ r.ret.is_hit = is_hit
                 /\ r.ret.next_turn = defender
                 /\ r.ret.winner = None
                 /\ r.hub = "none"

\* C20 witness: player2's shot has just been resolved as a miss after an
\* earlier hit on player1's board; the game goes on and the turn is player1's.
C20_Witness ==
    /\ contract = "battleship"
    /\ last.op = "resolve_shot"
    /\ ~last.ret.is_hit
    /\ last.ret.next_turn = games[1].player1
    /\ games[1].phase = "InProgress"
    /\ games[1].turn = games[1].player1
    /\ games[1].pending_shot = Absent
    /\ games[1].hits_on_p1 = 1
    /\ Cardinality(games[1].shots_p2_to_p1) = 2

\* The start_game of the deployed contract.
StartOp(g, s, p1, p2, pts, hubOk) ==
    IF contract = "battleship" THEN start_game(g, s, p1, p2, pts, pts, hubOk)
    ELSE StartGameCommand_execute(g, s, p1, p2, pts, pts, hubOk)

\* C21.  Session creation ordering, both games.  A session record is stored
\* exactly when the hub has been notified of its start, and the hub is
\* notified at most once per session.  Every start_game that succeeds calls
\* the hub's start_game first and writes the session record after it; when
\* the hub call fails the operation aborts and writes nothing, so the session
\* is still absent.
C21_HubBeforeCreate ==
    \A s \in SessionIds :
      /\ (games[s] # Absent) <=> (hub.started[s] = 1)
      /\ hub.started[s] \in {0, 1}
      /\ \A pr \in StartPairs, pts \in Stakes, hubOk \in BOOLEAN :
           LET r == StartOp(games[s], s, pr[1], pr[2], pts, hubOk)
           IN /\ r.err = "Ok" =>
                   (hubOk /\ r.hub = "start" /\ r.order = <<"hub", "save">>)
              /\ (games[s] = Absent /\ pr[1] # pr[2] /\ ~hubOk) =>
                   (r.err = "Panic" /\ r.game = Absent /\ r.order = <<"hub">>)
              /\ (games[s] = Absent /\ pr[1] # pr[2] /\ hubOk) => r.err = "Ok"

\* C21 witness: a Wordle session has just been created by a start_game that
\* notified the hub and then wrote the record.
C21_Witness ==
    /\ contract = "wordle"
    /\ last.op = "start_game"
    /\ last.hub = "start"
    /\ last.order = <<"hub", "save">>
    /\ games[1] # Absent
    /\ hub.started[1] = 1

\* The player named first at start_game (the hub's player1).
FirstPlayer(g) == IF contract = "battleship" THEN g.player1 ELSE g.word_setter

\* C22 for one resolve call with outcome r on the stored session g, and the
\* outcome ko of the same call when the hub's end_game fails: a call that
\* succeeds invokes end_game exactly when it stores an Ended session, after
\* the verifier and before the record is written, with player1_won =
\* (winner = first-named player); when end_game fails the call aborts and the
\* session is as stored, in progress with its move pending.
C22_Call(g, r, ko) ==
    /\ r.err = "Ok" =>
         /\ g.phase = "InProgress"
         /\ (r.hub = "end") <=> (r.game.phase = "Ended")
         /\ r.hub = "end" =>
              /\ r.order = <<"verify", "hub", "save">>
              /\ r.player1_won = (r.game.winner = FirstPlayer(g))
              /\ ko.err = "Panic" /\ ko.game = g /\ ko.order = <<"verify", "hub">>
         /\ r.hub # "end" => (r.hub = "none" /\ ko = r)
    /\ r.err # "Ok" => (r.game = g /\ r.hub = "none")

\* C22.  Game-end ordering, both games.  A stored session is Ended exactly
\* when the hub has been notified of its end; the hub is notified at most
\* once per session, with player1_won = (winner = first-named player); only a
\* resolve that ends the game calls end_game, before it writes the session,
\* and if that call fails the resolve aborts with the session unchanged.
C22_HubBeforeEnd ==
    \A s \in SessionIds :
      /\ hub.ended[s] \in {0, 1}
      /\ games[s] = Absent => hub.ended[s] = 0
      /\ games[s] # Absent =>
           LET g == games[s] IN
           /\ (g.phase = "Ended") <=> (hub.ended[s] = 1)
           /\ g.phase = "Ended" => hub.player1_won[s] = (g.winner = FirstPlayer(g))
           /\ IF contract = "battleship"
              THEN /\ \A player \in Addresses, c \in Commitments :
                        commit_board(g, s, player, c).hub = "none"
                   /\ \A shooter \in Addresses, xy \in FireInputs(g) :
                        fire(g, s, shooter, xy[1], xy[2]).hub = "none"
                   /\ \A defender \in Addresses, is_hit \in BOOLEAN,
                         sunk_ship \in SunkInputs, payload \in Payloads :
                      \A h \in ShotHashInputs(g, s, defender, is_hit, sunk_ship) :
                        C22_Call(g,
                                 resolve_shot(g, s, defender, is_hit, sunk_ship, payload, h, TRUE),
                                 resolve_shot(g, s, defender, is_hit, sunk_ship, payload, h, FALSE))
              ELSE /\ \A player \in Addresses, c \in Commitments :
                        CommitWordCommand_execute(g, s, player, c).hub = "none"
                   /\ \A guesser \in Addresses, letters \in GuessInputs :
                        GuessCommand_execute(g, s, guesser, letters).hub = "none"
                   /\ \A word_setter \in Addresses, feedback \in FeedbackInputs,
                         is_correct \in BOOLEAN, payload \in Payloads :
                      \A h \in GuessHashInputs(g, s, word_setter, feedback, is_correct) :
                        C22_Call(g,
                                 ResolveGuessCommand_execute(g, s, word_setter, feedback,
                                                             is_correct, payload, h, TRUE),
                                 ResolveGuessCommand_execute(g, s, word_setter, feedback,
                                                             is_correct, payload, h, FALSE))

\* C22 witness: player2 has just won a Battleship session; the resolve called
\* the verifier, then the hub's end_game with player1_won = false, then wrote
\* the Ended session.
C22_Witness ==
    /\ contract = "battleship"
    /\ last.op = "resolve_shot"
    /\ last.hub = "end"
    /\ last.order = <<"verify", "hub", "save">>
    /\ games[1].phase = "Ended"
    /\ games[1].winner = games[1].player2
    /\ hub.ended[1] = 1
    /\ ~hub.player1_won[1]

\* C23.  start_game, both games.  Every stored session has two distinct
\* players.  A start_game with equal players returns SelfPlayNotAllowed and
\* one for an id that has a session returns GameAlreadyExists (equal players
\* are reported first); both return before the hub is called and leave the
\* store as it is, session absent or session untouched.  With distinct
\* players, a free id and a hub that accepts, the session is created in the
\* waiting phase with those two players.
C23_StartGuards ==
    \A s \in SessionIds :
      /\ games[s] # Absent =>
           Cardinality(PlayersOf(games[s])) = 2
      /\ \A p1 \in Addresses, p2 \in Addresses, pts \in Stakes, hubOk \in BOOLEAN :
           LET r == StartOp(games[s], s, p1, p2, pts, hubOk)
           IN IF p1 = p2
              THEN /\ r.err = "SelfPlayNotAllowed"
                   /\ r.game = games[s] /\ r.hub = "none" /\ r.order = <<>>
              ELSE IF games[s] # Absent
              THEN /\ r.err = "GameAlreadyExists"
                   /\ r.game = games[s] /\ r.hub = "none" /\ r.order = <<>>
              ELSE hubOk =>
                     /\ r.err = "Ok"
                     /\ PlayersOf(r.game) = {p1, p2}
                     /\ FirstPlayer(r.game) = p1
                     /\ PhaseRank(r.game.phase) = 0

\* C23 witness: a Wordle game is in progress with a guess pending; a second
\* start_game for its id is refused with GameAlreadyExists, one with equal
\* players with SelfPlayNotAllowed.
C23_Witness ==
    /\ contract = "wordle"
    /\ games[1] # Absent
    /\ games[1].phase = "InProgress"
    /\ games[1].pending_guess # NoGuess
    /\ StartOp(games[1], 1, "GB", "GC", 100, TRUE).err = "GameAlreadyExists"
    /\ StartOp(games[1], 1, "GC", "GC", 100, TRUE).err = "SelfPlayNotAllowed"

\* An operation's outcome that is an error (or a trap) writes nothing.
Transactional(g, r) == r.err # "Ok" => (r.game = g /\ "save" \notin {r.order[i] : i \in 1..Len(r.order)})

\* A stored Battleship session with both hit counters forced to the maximum,
\* the only situation in which TooManyHits can be detected.
FullOfHits(g) == [g EXCEPT !.hits_on_p1 = TOTAL_SHIP_CELLS, !.hits_on_p2 = TOTAL_SHIP_CELLS]

\* C24.  In both games every call of every operation that returns an error
\* leaves the session record exactly as stored (absent if it was absent) and
\* never reaches the write of the record.  In particular a resolve_shot that
\* passes the proof gate and is then refused with ShipAlreadySunk, or with
\* TooManyHits on a board whose counter is already at the maximum, returns the
\* stored session, without the bit, the hit and the sunk flag it had added in
\* memory.
C24_ErrorsWriteNothing ==
    \A s \in SessionIds :
      LET g == games[s] IN
      /\ \A pr \in StartPairs, pts \in Stakes, hubOk \in BOOLEAN :
           Transactional(g, StartOp(g, s, pr[1], pr[2], pts, hubOk))
      /\ IF contract = "battleship"
         THEN /\ \A player \in Addresses, c \in Commitments :
                   Transactional(g, commit_board(g, s, player, c))
              /\ \A shooter \in Addresses, xy \in FireInputs(g) :
                   Transactional(g, fire(g, s, shooter, xy[1], xy[2]))
              /\ \A defender \in Addresses, is_hit \in BOOLEAN, sunk_ship \in SunkInputs,
                    payload \in Payloads, hubOk \in BOOLEAN :
                 \A h \in ShotHashInputs(g, s, defender, is_hit, sunk_ship) :
                   /\ Transactional(g, resolve_shot(g, s, defender, is_hit, sunk_ship,
                                                    payload, h, hubOk))
                   /\ (g # Absent /\ is_hit) =>
                        LET r == resolve_shot(FullOfHits(g), s, defender, is_hit, sunk_ship,
                                              payload, h, hubOk)
                        IN /\ Transactional(FullOfHits(g), r)
                           /\ r.err # "Ok"
                           /\ (r.verifier /\ r.err # "InvalidProof") => r.err = "TooManyHits"
         ELSE /\ \A player \in Addresses, c \in Commitments :
                   Transactional(g, CommitWordCommand_execute(g, s, player, c))
              /\ \A guesser \in Addresses, letters \in GuessInputs :
                   Transactional(g, GuessCommand_execute(g, s, guesser, letters))
              /\ \A word_setter \in Addresses, feedback \in FeedbackInputs,
                    is_correct \in BOOLEAN, payload \in Payloads, hubOk \in BOOLEAN :
                 \A h \in GuessHashInputs(g, s, word_setter, feedback, is_correct) :
                   Transactional(g, ResolveGuessCommand_execute(g, s, word_setter, feedback,
                                                                is_correct, payload, h, hubOk))

\* C24 witness: the Carrier of player2 is sunk, player1's next shot is
\* pending, and a proved resolve_shot that reports the Carrier sunk again is
\* refused with ShipAlreadySunk and returns the session as stored.
C24_Witness ==
    /\ contract = "battleship"
    /\ games[1] # Absent
    /\ games[1].pending_shot # Absent
    /\ games[1].pending_shot.shooter = games[1].player1
    /\ 0 \in games[1].sunk_ships_on_p2
    /\ LET r == resolve_shot(games[1], 1, games[1].player2, TRUE, 1, <<1>>,
                             ShotDigest(games[1], 1, games[1].player2, TRUE, 1), TRUE)
       IN r.err = "ShipAlreadySunk" /\ r.verifier /\ r.game = games[1]

\* C25.  Resolution is not identity-gated, both games: for every stored
\* session and every resolve call, the outcome (error or success, returned
\* value, session written, verifier and hub calls) is the same whichever
\* authorizations the invocation carries: nobody's, those of an address that
\* is neither player, or the players'.
C25_AnyoneResolves ==
    \A s \in SessionIds :
      games[s] # Absent =>
        LET g == games[s] IN
        IF contract = "battleship"
        THEN \A defender \in Addresses, is_hit \in BOOLEAN, sunk_ship \in SunkInputs,
                payload \in Payloads, hubOk \in BOOLEAN :
             \A h \in ShotHashInputs(g, s, defender, is_hit, sunk_ship) :
             \A signers \in SignerSets :
               BattleshipContract_resolve_shot(signers, g, s, defender, is_hit, sunk_ship,
                                               payload, h, hubOk)
                 = BattleshipContract_resolve_shot(PlayersOf(g), g, s, defender, is_hit,
                                                   sunk_ship, payload, h, hubOk)
        ELSE \A word_setter \in Addresses, feedback \in FeedbackInputs,
                is_correct \in BOOLEAN, payload \in Payloads, hubOk \in BOOLEAN :
             \A h \in GuessHashInputs(g, s, word_setter, feedback, is_correct) :
             \A signers \in SignerSets :
               WordleContract_resolve_guess(signers, g, s, word_setter, feedback,
                                            is_correct, payload, h, hubOk)
                 = WordleContract_resolve_guess(PlayersOf(g), g, s, word_setter, feedback,
                                                is_correct, payload, h, hubOk)

\* C25 witness: player1's shot is pending and a proved resolve_shot invoked
\* with the authorization of an address that is neither player succeeds.
C25_Witness ==
    /\ contract = "battleship"
    /\ games[1] # Absent
    /\ games[1].pending_shot # Absent
    /\ games[1].pending_shot.shooter = games[1].player1
    /\ "GC" \notin PlayersOf(games[1])
    /\ BattleshipContract_resolve_shot({"GC"}, games[1], 1, games[1].player2, FALSE, 0, <<1>>,
                                       ShotDigest(games[1], 1, games[1].player2, FALSE, 0),
                                       TRUE).err = "Ok"

\* Coordinates off the board on one axis or both, and guesses with a letter
\* value outside the alphabet in some position.
OffBoard == {<<BOARD_SIZE, 0>>, <<0, BOARD_SIZE>>, <<BOARD_SIZE, BOARD_SIZE>>, <<BOARD_SIZE + 1, 3>>}

BadLetters == {<<0, 0, 0, 0, ALPHABET_SIZE>>, <<ALPHABET_SIZE, 0, 0, 0, 0>>, <<7, 4, 255, 11, 14>>}

\* C26.  Move range validation.  Battleship: in an InProgress session with
\* no pending shot, every fire by the turn holder at a coordinate with
\* x >= BOARD_SIZE or y >= BOARD_SIZE returns InvalidCoordinate, and a fire at
\* the far corner of the board does not.  Wordle: every guess with a letter
\* value >= ALPHABET_SIZE returns InvalidLetterValue, whoever calls it and
\* whatever the session's state, and a guess of letters 25 does not.  The
\* refused calls record no pending move and leave the session as stored.
C26_RangeChecked ==
    \A s \in SessionIds :
      LET g == games[s] IN
      IF contract = "battleship"
      THEN (g # Absent /\ g.phase = "InProgress" /\ g.pending_shot = Absent) =>
             /\ \A xy \in OffBoard :
                  LET r == fire(g, s, g.turn, xy[1], xy[2])
                  IN r.err = "InvalidCoordinate" /\ r.game = g
             /\ fire(g, s, g.turn, BOARD_SIZE - 1, BOARD_SIZE - 1).err # "InvalidCoordinate"
      ELSE /\ \A guesser \in Addresses, letters \in BadLetters :
                LET r == GuessCommand_execute(g, s, guesser, letters)
                IN r.err = "InvalidLetterValue" /\ r.game = g
           /\ \A guesser \in Addresses :
                GuessCommand_execute(g, s, guesser, <<25, 25, 25, 25, 25>>).err
                  # "InvalidLetterValue"

\* C26 witness: after two resolved shots it is player1's turn with nothing
\* pending, and player1's fire at x = 10 is refused with InvalidCoordinate.
C26_Witness ==
    /\ contract = "battleship"
    /\ games[1] # Absent
    /\ games[1].phase = "InProgress"
    /\ games[1].pending_shot = Absent
    /\ games[1].turn = games[1].player1
    /\ games[1].shots_p2_to_p1 # {}
    /\ fire(games[1], 1, games[1].player1, 10, 0).err = "InvalidCoordinate"
    /\ fire(games[1], 1, games[1].player1, 9, 9).err = "Ok"

\* C27, the state part: the population count of each shot bitmap is the
\* number of resolve_shot calls that have succeeded for that shooter.
C27_State ==
    contract = "battleship" =>
      \A s \in SessionIds :
        IF games[s] = Absent THEN resolved[s] = [first |-> 0, second |-> 0]
        ELSE /\ Cardinality(games[s].shots_p1_to_p2) = resolved[s].first
             /\ Cardinality(games[s].shots_p2_to_p1) = resolved[s].second

\* C27, the step part: a session is created with empty bitmaps; no step
\* clears a bit; a step that changes a bitmap is a resolve_shot, and it adds
\* to the bitmap of the pending shot's shooter the one bit y * BOARD_SIZE + x
\* of that shot, which was clear, and leaves the other bitmap.
C27_Step ==
    contract = "battleship" =>
      \A s \in SessionIds :
        IF games[s] = Absent
        THEN games'[s] # Absent =>
               (games'[s].shots_p1_to_p2 = {} /\ games'[s].shots_p2_to_p1 = {})
        ELSE LET g == games[s]
                 n == games'[s]
             IN /\ n # Absent
                /\ g.shots_p1_to_p2 \subseteq n.shots_p1_to_p2
                /\ g.shots_p2_to_p1 \subseteq n.shots_p2_to_p1
                /\ (n.shots_p1_to_p2 # g.shots_p1_to_p2 \/ n.shots_p2_to_p1 # g.shots_p2_to_p1)
                     => /\ last'.op = "resolve_shot"
                        /\ g.pending_shot # Absent
                        /\ LET p == g.pending_shot
                               bit == p.y * BOARD_SIZE + p.x
                           IN /\ bit \notin ShotsBy(g, p.shooter)
                              /\ ShotsBy(n, p.shooter) = ShotsBy(g, p.shooter) \cup {bit}
                              /\ ShotsBy(n, Other(g, p.shooter))
                                   = ShotsBy(g, Other(g, p.shooter))
                /\ (last'.op = "resolve_shot" /\ n # g)
                     => Cardinality(n.shots_p1_to_p2) + Cardinality(n.shots_p2_to_p1)
                          = Cardinality(g.shots_p1_to_p2) + Cardinality(g.shots_p2_to_p1) + 1

\* C27.  Battleship: in every reachable state the population count of
\* shots_p1_to_p2 is the number of successful resolve_shot calls for shots
\* fired by player1, and that of shots_p2_to_p1 likewise for player2; each
\* successful resolve sets exactly one previously clear bit in the shooter's
\* bitmap and leaves the other bitmap; no operation clears a bit.
C27_BitmapCountsResolves == []C27_State /\ [][C27_Step]_vars

\* C27 witness: three shots of player1 and two of player2 have been
\* resolved, among them a miss, and the bitmaps hold three and two bits.
C27_Witness ==
    /\ contract = "battleship"
    /\ games[1] # Absent
    /\ resolved[1] = [first |-> 3, second |-> 2]
    /\ Cardinality(games[1].shots_p1_to_p2) = 3
    /\ Cardinality(games[1].shots_p2_to_p1) = 2
    /\ games[1].hits_on_p2 < 3

\* C28 as stated: the population count of each shot bitmap equals the hit
\* counter of the board it was fired at.
C28_PopcountIsHits ==
    contract = "battleship" =>
      \A s \in SessionIds :
        games[s] # Absent =>
          /\ Cardinality(games[s].shots_p1_to_p2) = games[s].hits_on_p2
          /\ Cardinality(games[s].shots_p2_to_p1) = games[s].hits_on_p1

\* C28, amended.  Battleship: the bitmaps record every resolved shot, hit or
\* miss, and the counters only the hits.  In every reachable state
\* hits_on_p2 <= popcount(shots_p1_to_p2) and hits_on_p1 <=
\* popcount(shots_p2_to_p1), and every successful resolve_shot adds one bit
\* to the shooter's bitmap while the defender's hit counter grows by one for
\* a hit and stays for a miss, so the difference of the two is the number of
\* misses resolved in that direction.
C28_PopcountIsHitsPlusMisses ==
    contract = "battleship" =>
      \A s \in SessionIds :
        games[s] # Absent =>
          LET g == games[s]
          IN /\ g.hits_on_p2 <= Cardinality(g.shots_p1_to_p2)
             /\ g.hits_on_p1 <= Cardinality(g.shots_p2_to_p1)
             /\ \A defender \in Addresses, is_hit \in BOOLEAN, sunk_ship \in SunkInputs :
                \A h \in ShotHashInputs(g, s, defender, is_hit, sunk_ship) :
                  LET r == resolve_shot(g, s, defender, is_hit, sunk_ship, <<1>>, h, TRUE)
                      S == Other(g, defender)
                  IN r.err = "Ok" =>
                       /\ Cardinality(ShotsBy(r.game, S)) = Cardinality(ShotsBy(g, S)) + 1
                       /\ HitsOn(r.game, defender)
                            = HitsOn(g, defender) + (IF is_hit THEN 1 ELSE 0)
                       /\ Cardinality(ShotsBy(r.game, S)) - HitsOn(r.game, defender)
                            = Cardinality(ShotsBy(g, S)) - HitsOn(g, defender)
                                + (IF is_hit THEN 0 ELSE 1)
                       /\ ShotsBy(r.game, defender) = ShotsBy(g, defender)
                       /\ HitsOn(r.game, S) = HitsOn(g, S)

\* C28 witness: resolve_shot has just resolved a shot of player1 as a miss:
\* two bits are set in shots_p1_to_p2 and hits_on_p2 is one.
C28_Witness ==
    /\ contract = "battleship"
    /\ games[1] # Absent
    /\ last.op = "resolve_shot"
    /\ last.ret # Absent
    /\ ~last.ret.is_hit
    /\ Cardinality(games[1].shots_p1_to_p2) = 2
    /\ games[1].hits_on_p2 = 1

\* Digests a caller may offer for the pending shot besides those of
\* ShotHashInputs: the right inputs with the addresses exchanged, with the
\* coordinates exchanged, with another session id, with the other commitment.
C29_NearDigests(g, s, defender, is_hit, sunk_ship) ==
    LET p == g.pending_shot
        c == StoredBoard(g, defender)
    IN {build_public_inputs_hash_internal(s, p.shooter, defender, p.x, p.y, is_hit, sunk_ship, c),
        build_public_inputs_hash_internal(s, defender, p.shooter, p.y, p.x + 1, is_hit, sunk_ship, c),
        build_public_inputs_hash_internal(s + 1, defender, p.shooter, p.x, p.y, is_hit, sunk_ship, c),
        build_public_inputs_hash_internal(s, defender, p.shooter, p.x, p.y, is_hit, sunk_ship + 1, c),
        build_public_inputs_hash_internal(s, defender, p.shooter, p.x, p.y, is_hit, sunk_ship,
                                          StoredBoard(g, p.shooter))}

\* The results of a resolve_shot call that got past the comparison of the
\* digests.
C29_PastHashCheck == {"Ok", "InvalidProof", "TooManyHits", "ShipAlreadySunk", "Panic"}

\* C29.  Battleship: build_public_inputs_hash depends on its arguments only
\* and is the digest resolve_shot recomputes: for every resolve_shot call
\* that reaches the comparison (a shot is pending, the defender is the
\* shooter's opponent, sunk_ship is consistent with is_hit), the call gets
\* past the comparison exactly when the supplied digest is
\* build_public_inputs_hash(session_id, defender, pending.shooter, pending.x,
\* pending.y, is_hit, sunk_ship, the defender's stored commitment), and
\* returns InvalidPublicInputsHash exactly when it is not; a call that does
\* not reach the comparison returns neither.
C29_HashIsTheUtility ==
    contract = "battleship" =>
      \A s \in SessionIds :
        games[s] # Absent =>
          LET g == games[s]
          IN \A defender \in Addresses, is_hit \in BOOLEAN, sunk_ship \in SunkInputs,
                payload \in Payloads :
               IF ~ShotCallWellFormed(g, defender, is_hit, sunk_ship)
               THEN LET r == resolve_shot(g, s, defender, is_hit, sunk_ship, payload,
                                          WrongHash, TRUE)
                    IN r.err \notin C29_PastHashCheck \cup {"InvalidPublicInputsHash"}
               ELSE LET p == g.pending_shot
                        d == build_public_inputs_hash(s, defender, p.shooter, p.x, p.y,
                                                      is_hit, sunk_ship,
                                                      StoredBoard(g, defender))
                    IN /\ d = build_public_inputs_hash_internal(
                                  s, defender, p.shooter, p.x, p.y, is_hit, sunk_ship,
                                  StoredBoard(g, defender))
                       /\ \A h \in ShotHashInputs(g, s, defender, is_hit, sunk_ship)
                                     \cup C29_NearDigests(g, s, defender, is_hit, sunk_ship) :
                            LET r == resolve_shot(g, s, defender, is_hit, sunk_ship,
                                                  payload, h, TRUE)
                            IN /\ (r.err \in C29_PastHashCheck) <=> (h = d)
                               /\ (r.err = "InvalidPublicInputsHash") <=> (h # d)

\* C29 witness: resolve_shot has just accepted a call whose digest is the
\* one build_public_inputs_hash gives for the shot that was pending; the shot
\* is recorded as a hit and the turn has passed to the defender.
C29_Witness ==
    /\ contract = "battleship"
    /\ games[1] # Absent
    /\ last.op = "resolve_shot"
    /\ last.verifier
    /\ Cardinality(games[1].shots_p1_to_p2) = 1
    /\ games[1].hits_on_p2 = 1
    /\ games[1].pending_shot = Absent
    /\ games[1].turn = games[1].player2

\* Feedback vectors a caller can pass to the public build_public_inputs_hash
\* (any Vec<u32>): valid ones, one with an entry above 255, one of length 4.
C30_Feedbacks ==
    {<<0, 0, 0, 0, 0>>, <<1, 0, 0, 0, 0>>, <<0, 0, 0, 0, 2>>, <<2, 2, 2, 2, 2>>,
     <<256, 0, 0, 0, 0>>, <<0, 0, 0, 0>>}

\* Two feedback vectors that differ in one entry or in that one is the other
\* with entries removed from its end.
C30_OneChange(f1, f2) ==
    /\ f1 # f2
    /\ IF Len(f1) = Len(f2)
       THEN Cardinality({i \in 1..Len(f1) : f1[i] # f2[i]}) = 1
       ELSE LET n == IF Len(f1) < Len(f2) THEN Len(f1) ELSE Len(f2)
            IN SubSeq(f1, 1, n) = SubSeq(f2, 1, n)

\* For the pending guess of each stored Wordle session and the feedback
\* vectors of F: changing the session id, one guess letter, the is_correct
\* flag, the commitment, either address, or one entry or the length of the
\* feedback, changes the bytes build_public_inputs_hash hashes.
C30_Changes(F) ==
    contract = "wordle" =>
      \A s \in SessionIds :
        (games[s] # Absent /\ games[s].pending_guess # NoGuess) =>
          LET g == games[s]
              H(sid, ws, gu, letters, fb, ok, c) ==
                  ResolveGuessCommand_build_public_inputs_hash(sid, ws, gu, letters, fb, ok, c)
              base(fb, ok) == H(s, g.word_setter, g.guesser, g.pending_guess, fb, ok,
                                g.word_commitment)
          IN \A fb \in F, ok \in BOOLEAN :
               /\ H(s + 1, g.word_setter, g.guesser, g.pending_guess, fb, ok,
                    g.word_commitment) # base(fb, ok)
               /\ \A i \in 1..WORD_LENGTH :
                    H(s, g.word_setter, g.guesser,
                      [g.pending_guess EXCEPT ![i] = (@ + 1) % ALPHABET_SIZE], fb, ok,
                      g.word_commitment) # base(fb, ok)
               /\ base(fb, ~ok) # base(fb, ok)
               /\ \A c \in Commitments \ {g.word_commitment} :
                    H(s, g.word_setter, g.guesser, g.pending_guess, fb, ok, c) # base(fb, ok)
               /\ \A a \in Addresses :
                    /\ a # g.word_setter =>
                         H(s, a, g.guesser, g.pending_guess, fb, ok, g.word_commitment)
                           # base(fb, ok)
                    /\ a # g.guesser =>
                         H(s, g.word_setter, a, g.pending_guess, fb, ok, g.word_commitment)
                           # base(fb, ok)
               /\ \A fb2 \in F :
                    C30_OneChange(fb, fb2) => base(fb2, ok) # base(fb, ok)

\* C30.  Wordle build_public_inputs_hash: changing any single input (session
\* id, any guess letter, any entry or the length of the feedback sequence,
\* is_correct, the commitment, either address) changes the bytes hashed.
C30_SingleChangeChangesBytes == C30_Changes(C30_Feedbacks)

\* The same for the feedback vectors resolve_guess accepts (five entries,
\* each 0, 1 or 2), the only ones the contract itself ever hashes.
C30_ValidFeedbackChangesBytes ==
    C30_Changes({f \in C30_Feedbacks : Feedback_from_vec(f) = "Ok"})

\* The count N written in a payload's header is 2^27 or more (32 * N does
\* not fit 32 bits) exactly when its first byte is 8 or more.
C31_MulOverflows(p) == p.header[1] >= 8

\* N, for a header below 2^27.
C31_Count(p) ==
    ((p.header[1] * 256 + p.header[2]) * 256 + p.header[3]) * 256 + p.header[4]

\* 260 + 32 * N exceeds 2^32 - 1 although 32 * N does not: N >= 2^27 - 8.
C31_AddOverflows(p) == ~C31_MulOverflows(p) /\ C31_Count(p) >= 134217720

\* The buffer length is 260 + 32 * N.
C31_LengthFits(p) ==
    /\ p.len >= INPUTS_OFFSET
    /\ ~C31_MulOverflows(p) /\ ~C31_AddOverflows(p)
    /\ (p.len - INPUTS_OFFSET) % 32 = 0
    /\ (p.len - INPUTS_OFFSET) \div 32 = C31_Count(p)

C32_Expected(commitment, hash) ==
    <<<<Zero16, commitment[1]>>, <<Zero16, commitment[2]>>,
      <<Zero16, hash[1]>>, <<Zero16, hash[2]>>>>

\* The parsed payload carries at least four inputs and the first four are
\* the expected limbs, byte for byte.
C32_Bound(c) ==
    /\ c.parsed.err = "Ok"
    /\ Len(c.parsed.public_inputs) >= 4
    /\ \A i \in 1..4 :
         Fr_to_bytes(c.parsed.public_inputs[i]) = C32_Expected(c.commitment, c.hash)[i]

\* C32.  Binding check, both adapters: verify returns true only if the
\* payload carries at least four public inputs and inputs 0..3 are, in this
\* order, commitment[0..16], commitment[16..32], hash[0..16], hash[16..32],
\* right-aligned in limbs whose top 16 bytes are zero; a payload that parses
\* but whose first four inputs differ from these returns false without the
\* Groth16 verifier being asked, whatever that verifier would answer.
C32_BindingChecked ==
    call # Absent =>
      /\ (~call.out.trap /\ call.out.ret) => C32_Bound(call)
      /\ call.out.called => C32_Bound(call)
      /\ ~C32_Bound(call) => call.out = [trap |-> FALSE, ret |-> FALSE, called |-> FALSE]

\* C32 witness: a payload of fifteen inputs whose fourth input has the right
\* low half under a non-zero top half was offered with a proof the Groth16
\* verifier accepts, and verify returned false.
C32_Witness ==
    /\ call # Absent
    /\ call.answer = "true"
    /\ call.parsed.err = "Ok"
    /\ Len(call.parsed.public_inputs) = 15
    /\ \A i \in 1..3 :
         Fr_to_bytes(call.parsed.public_inputs[i]) = C32_Expected(call.commitment, call.hash)[i]
    /\ Fr_to_bytes(call.parsed.public_inputs[4]) = <<1, call.hash[2]>>
    /\ call.out = [trap |-> FALSE, ret |-> FALSE, called |-> FALSE]

\* C33.  The adapters' verify returns a boolean for every call: false for a
\* malformed payload, for a binding mismatch, for a proof the Groth16
\* verifier rejects, and also when the Groth16 verifier reports an error;
\* no call aborts.
C33_AlwaysBoolean ==
    call # Absent =>
      /\ ~call.out.trap
      /\ call.out.ret =>
           (call.parsed.err = "Ok" /\ call.out.called /\ call.answer = "true")

\* The part of C33 that holds: a call that never reaches the Groth16
\* verifier, or whose proof the verifier accepts or rejects, returns a
\* boolean, true only for an accepted proof.
C33_BooleanUnlessVerifierErrs ==
    (call # Absent /\ (~call.out.called \/ call.answer # "error")) =>
      /\ ~call.out.trap
      /\ call.out.ret <=> (call.out.called /\ call.answer = "true")

\* C34.  Wordle role and phase gating, for every commit_word and guess call
\* on a stored session: commit_word succeeds only for the word setter and
\* only in WaitingForWord, and then stores the commitment and moves the
\* session to InProgress; in WaitingForWord any other caller, the guesser
\* included, gets NotWordSetter.  guess succeeds only for the guesser and
\* only in InProgress; with well-formed letters, in InProgress any other
\* caller, the word setter included, gets NotGuesser, and before the word is
\* committed every caller gets InvalidPhase.  Every rejected call leaves the
\* session as stored.
C34_RoleAndPhase ==
    contract = "wordle" =>
      \A s \in SessionIds :
        games[s] # Absent =>
          LET g == games[s]
          IN /\ \A player \in Addresses, c \in Commitments :
                  LET r == CommitWordCommand_execute(g, s, player, c)
                  IN /\ r.err = "Ok" =>
                          /\ player = g.word_setter
                          /\ g.phase = "WaitingForWord"
                          /\ r.game = [g EXCEPT !.word_commitment = c, !.phase = "InProgress"]
                     /\ r.err # "Ok" => r.game = g
                     /\ (g.phase = "WaitingForWord" /\ player # g.word_setter)
                          => r.err = "NotWordSetter"
                     /\ (g.phase = "WaitingForWord" /\ player = g.word_setter)
                          => r.err = "Ok"
                     /\ g.phase = "InProgress" => r.err = "InvalidPhase"
             /\ \A player \in Addresses, letters \in GuessInputs :
                  LET r == GuessCommand_execute(g, s, player, letters)
                  IN /\ r.err = "Ok" =>
                          /\ player = g.guesser
                          /\ g.phase = "InProgress"
                          /\ r.game = [g EXCEPT !.pending_guess = letters]
                     /\ r.err # "Ok" => r.game = g
                     /\ Guess_new(letters) = "Ok" =>
                          /\ (g.phase = "InProgress" /\ player # g.guesser)
                               => r.err = "NotGuesser"
                          /\ g.phase = "WaitingForWord" => r.err = "InvalidPhase"

\* C34 witness: the word setter has just committed the word, the session is
\* InProgress, and a guess by the word setter is refused with NotGuesser.
C34_Witness ==
    /\ contract = "wordle"
    /\ games[1] # Absent
    /\ last.op = "commit_word"
    /\ games[1].phase = "InProgress"
    /\ GuessCommand_execute(games[1], 1, games[1].word_setter, FirstGuess).err = "NotGuesser"
    /\ GuessCommand_execute(games[1], 1, games[1].guesser, FirstGuess).err = "Ok"

\* Feedback sequences of a wrong shape: too short, too long, empty, and of
\* five entries with a code above 2 in the last or the first place.
C35_BadLength == {<<>>, <<0, 0, 0, 0>>, <<2, 2, 2, 2, 2, 2>>}

C35_BadValue == {<<0, 0, 0, 0, 3>>, <<3, 2, 2, 2, 2>>, <<0, 1, 256, 0, 0>>}

\* C35.  Wordle feedback shape: on an existing session resolve_guess with a
\* feedback whose length is not 5 fails with InvalidFeedbackLength, and with
\* five entries one of which exceeds 2 with InvalidFeedbackValue, whatever
\* the session's phase, the hash (the right digest included) and the payload;
\* the verifier is not consulted and the session stays as stored.  Every
\* feedback in a stored history has five entries, each 0, 1 or 2.
C35_FeedbackShape ==
    contract = "wordle" =>
      \A s \in SessionIds :
        games[s] # Absent =>
          LET g == games[s]
          IN /\ \A i \in 1..Len(g.feedbacks) :
                  /\ Len(g.feedbacks[i]) = 5
                  /\ \A k \in 1..5 : g.feedbacks[i][k] \in {0, 1, 2}
             /\ Len(g.feedbacks) = Len(g.guesses)
             /\ \A feedback \in C35_BadLength \cup C35_BadValue, word_setter \in Addresses,
                   is_correct \in BOOLEAN, payload \in Payloads, hubOk \in BOOLEAN :
                \A h \in GuessHashInputs(g, s, word_setter, feedback, is_correct) :
                  LET r == ResolveGuessCommand_execute(g, s, word_setter, feedback,
                                                       is_correct, payload, h, hubOk)
                  IN /\ r.err = (IF feedback \in C35_BadLength
                                 THEN "InvalidFeedbackLength" ELSE "InvalidFeedbackValue")
                     /\ r.game = g
                     /\ ~r.verifier
                     /\ r.hub = "none"

\* C35 witness: a feedback is stored in the history, a guess is pending, and
\* a resolve_guess carrying the digest of a five-entry feedback with a code 3
\* and a payload the verifier accepts is refused with InvalidFeedbackValue.
C35_Witness ==
    /\ contract = "wordle"
    /\ games[1] # Absent
    /\ Len(games[1].feedbacks) >= 1
    /\ games[1].pending_guess # NoGuess
    /\ ResolveGuessCommand_execute(
           games[1], 1, games[1].word_setter, <<0, 0, 0, 0, 3>>, FALSE, <<1>>,
           GuessDigest(games[1], 1, games[1].word_setter, <<0, 0, 0, 0, 3>>, FALSE),
           TRUE).err = "InvalidFeedbackValue"

\* C36.  Battleship hit cap: in every reachable stored state hits_on_p1 and
\* hits_on_p2 are at most 17, a counter at 17 belongs to an Ended session,
\* and no resolve_shot call on a reachable state returns TooManyHits: the
\* resolve that brings a counter to 17 ends the session, and an Ended
\* session refuses every further resolve with GameAlreadyEnded.
C36_HitCap ==
    contract = "battleship" =>
      \A s \in SessionIds :
        games[s] # Absent =>
          LET g == games[s]
          IN /\ g.hits_on_p1 <= TOTAL_SHIP_CELLS
             /\ g.hits_on_p2 <= TOTAL_SHIP_CELLS
             /\ (g.hits_on_p1 = TOTAL_SHIP_CELLS \/ g.hits_on_p2 = TOTAL_SHIP_CELLS)
                  <=> g.phase = "Ended"
             /\ \A defender \in Addresses, is_hit \in BOOLEAN, sunk_ship \in SunkInputs,
                   payload \in Payloads, hubOk \in BOOLEAN :
                \A h \in ShotHashInputs(g, s, defender, is_hit, sunk_ship) :
                  LET r == resolve_shot(g, s, defender, is_hit, sunk_ship, payload, h, hubOk)
                  IN /\ r.err # "TooManyHits"
                     /\ g.phase = "Ended" => r.err = "GameAlreadyEnded"

\* C36 witness: resolve_shot has just brought hits_on_p2 to 17 and ended the
\* session, and a further resolve claiming a hit is refused as
\* GameAlreadyEnded.
C36_Witness ==
    /\ contract = "battleship"
    /\ games[1] # Absent
    /\ last.op = "resolve_shot"
    /\ games[1].hits_on_p2 = TOTAL_SHIP_CELLS
    /\ games[1].phase = "Ended"
    /\ resolve_shot(games[1], 1, games[1].player2, TRUE, 0, <<1>>, WrongHash, TRUE).err
         = "GameAlreadyEnded"

\* C37.  Battleship turn/pending consistency, in every reachable stored
\* state: turn is set iff phase = InProgress, and is then one of the two
\* players; a pending shot exists only in InProgress, its shooter is the
\* turn holder, its coordinates are below 10 and its bit is clear in the
\* shooter's bitmap; so no resolve_shot call returns ShotAlreadyResolved,
\* InvalidCoordinate or NotPlayer.
C37_TurnAndPending ==
    contract = "battleship" =>
      \A s \in SessionIds :
        games[s] # Absent =>
          LET g == games[s]
              p == g.pending_shot
          IN /\ (g.turn # None) <=> (g.phase = "InProgress")
             /\ g.turn # None => g.turn \in {g.player1, g.player2}
             /\ p # Absent =>
                  /\ g.phase = "InProgress"
                  /\ p.shooter = g.turn
                  /\ p.x < BOARD_SIZE /\ p.y < BOARD_SIZE
                  /\ (p.y * BOARD_SIZE + p.x) \notin ShotsBy(g, p.shooter)
             /\ \A defender \in Addresses, is_hit \in BOOLEAN, sunk_ship \in SunkInputs,
                   payload \in Payloads, hubOk \in BOOLEAN :
                \A h \in ShotHashInputs(g, s, defender, is_hit, sunk_ship) :
                  resolve_shot(g, s, defender, is_hit, sunk_ship, payload, h, hubOk).err
                    \notin {"ShotAlreadyResolved", "InvalidCoordinate", "NotPlayer"}

\* C37 witness: player2 holds the turn and has a shot pending at a cell
\* player1 has already had resolved.
C37_Witness ==
    /\ contract = "battleship"
    /\ games[1] # Absent
    /\ last.op = "fire"
    /\ games[1].pending_shot # Absent
    /\ games[1].turn = games[1].player2
    /\ games[1].pending_shot.shooter = games[1].player2
    /\ (games[1].pending_shot.y * BOARD_SIZE + games[1].pending_shot.x)
         \in games[1].shots_p1_to_p2

\* C38.  Battleship strict alternation, in every reachable state: the number
\* of player1's resolved shots less the number of player2's is 0 or 1; while
\* InProgress player1 holds the turn exactly when the counts are equal and
\* player2 exactly when player1 is one ahead; a session player1 won ended
\* with player1 one ahead, one player2 won with equal counts; and every
\* successful resolve_shot that does not end the game, a hit included, hands
\* the turn to the defender, so no player has two shots resolved in a row.
C38_StrictAlternation ==
    contract = "battleship" =>
      \A s \in SessionIds :
        games[s] # Absent =>
          LET g == games[s]
              d == Cardinality(g.shots_p1_to_p2) - Cardinality(g.shots_p2_to_p1)
          IN /\ d \in {0, 1}
             /\ resolved[s].first - resolved[s].second = d
             /\ g.phase = "WaitingForBoards" => Cardinality(g.shots_p1_to_p2) = 0
             /\ g.phase = "InProgress" =>
                  /\ (g.turn = g.player1) <=> (d = 0)
                  /\ (g.turn = g.player2) <=> (d = 1)
             /\ g.phase = "Ended" =>
                  /\ g.winner = g.player1 => d = 1
                  /\ g.winner = g.player2 => d = 0
             /\ \A defender \in Addresses, is_hit \in BOOLEAN, sunk_ship \in SunkInputs :
                \A h \in ShotHashInputs(g, s, defender, is_hit, sunk_ship) :
                  LET r == resolve_shot(g, s, defender, is_hit, sunk_ship, <<1>>, h, TRUE)
                  IN (r.err = "Ok" /\ r.game.phase = "InProgress") =>
                        /\ r.game.turn = defender
                        /\ r.game.turn # g.pending_shot.shooter

\* C38 witness: player1's shot has just been resolved as a hit, player1 is
\* one resolved shot ahead, and the turn is player2's.
C38_Witness ==
    /\ contract = "battleship"
    /\ games[1] # Absent
    /\ last.op = "resolve_shot"
    /\ last.ret # Absent
    /\ last.ret.is_hit
    /\ games[1].phase = "InProgress"
    /\ Cardinality(games[1].shots_p1_to_p2) = 2
    /\ Cardinality(games[1].shots_p2_to_p1) = 1
    /\ games[1].turn = games[1].player2

\* Session ids a resolve_shot call may name: the stored one and another.
C39_SessionIds == SessionIds \cup {2}

\* C39.  Battleship proof-reuse protection, the hashed bytes standing for
\* the digest: every digest resolve_shot accepts names the session id of the
\* call and the shooter and coordinates of the shot then pending; within a
\* session no two accepted digests name the same shooter and coordinates
\* (as many distinct ones are recorded as resolves have succeeded), and a
\* digest accepted now differs from every digest accepted before; a digest
\* made for, or accepted in, one session id is refused under another, even
\* on an identical stored session.
C39_NoDigestTwice ==
    contract = "battleship" =>
      \A s \in SessionIds :
        /\ Cardinality(accepted_shots[s]) = resolved[s].first + resolved[s].second
        /\ \A a \in accepted_shots[s] : Len(a) = 4 /\ a[1] = s
        /\ games[s] # Absent =>
             LET g == games[s]
             IN \A sid \in C39_SessionIds, made_for \in C39_SessionIds,
                   defender \in Addresses, is_hit \in BOOLEAN, sunk_ship \in SunkInputs :
                \A h \in ShotHashInputs(g, made_for, defender, is_hit, sunk_ship) :
                  LET r == resolve_shot(g, sid, defender, is_hit, sunk_ship, <<1>>, h, TRUE)
                  IN /\ r.err = "Ok" =>
                          /\ made_for = sid
                          /\ ShotOf(h) = <<sid, g.pending_shot.shooter,
                                          g.pending_shot.x, g.pending_shot.y>>
                          /\ sid = s => ShotOf(h) \notin accepted_shots[s]
                          /\ \A a \in accepted_shots[s] :
                               <<a[2], a[3], a[4]>> # <<g.pending_shot.shooter,
                                                       g.pending_shot.x, g.pending_shot.y>>
                     /\ (made_for # sid /\ ShotCallWellFormed(g, defender, is_hit, sunk_ship))
                          => r.err = "InvalidPublicInputsHash"

\* C39 witness: three digests have been accepted in session 1, two for
\* shots of player1 and one for a shot of player2 at a cell player1 also
\* shot at, and a fourth shot is pending.
C39_Witness ==
    /\ contract = "battleship"
    /\ games[1] # Absent
    /\ Cardinality(accepted_shots[1]) = 3
    /\ resolved[1] = [first |-> 2, second |-> 1]
    /\ \E a, b \in accepted_shots[1] : a[2] # b[2] /\ a[3] = b[3] /\ a[4] = b[4]
    /\ games[1].pending_shot # Absent

\* C40, the state part: a Wordle session has had at most MAX_GUESSES guesses
\* resolved, as many as resolve_guess calls have succeeded, and one with
\* MAX_GUESSES resolved is Ended.
C40_State ==
    \A s \in SessionIds :
      games[s] # Absent =>
        /\ games[s].guess_count <= MAX_GUESSES
        /\ games[s].guess_count = resolved[s].second
        /\ games[s].guess_count = MAX_GUESSES => games[s].phase = "Ended"

\* C40, the step part: no operation changes an Ended session, and a session
\* with a pending guess is changed only by a resolve_guess that succeeds
\* (nothing cancels or replaces the pending guess).
C40_Step ==
    \A s \in SessionIds :
      games[s] # Absent =>
        /\ games[s].phase = "Ended" => games'[s] = games[s]
        /\ (games[s].pending_guess # NoGuess /\ games'[s] # games[s]) =>
             /\ last'.op = "resolve_guess"
             /\ resolved'[s].second = resolved[s].second + 1
             /\ games'[s].pending_guess = NoGuess

\* C40.  Wordle termination: if guesses keep being submitted and pending
\* guesses keep being resolved successfully, every InProgress session
\* reaches Ended, after at most 6 successful resolutions in total, and no
\* operation changes it afterwards; while a guess is pending nothing but a
\* successful resolve_guess changes the session, so a session whose pending
\* guess is never resolved stays InProgress.
C40_Terminates ==
    /\ []C40_State
    /\ [][C40_Step]_vars
    /\ \A s \in SessionIds :
         (games[s] # Absent /\ games[s].phase = "InProgress")
            ~> (games[s] # Absent /\ games[s].phase = "Ended")

\* C40 witness: the sixth resolution, of a wrong guess, has just ended the
\* session in the word setter's favour.
C40_Witness ==
    /\ contract = "wordle"
    /\ games[1] # Absent
    /\ last.op = "resolve_guess"
    /\ games[1].phase = "Ended"
    /\ games[1].guess_count = MAX_GUESSES
    /\ resolved[1].second = MAX_GUESSES
    /\ games[1].winner = games[1].word_setter

====
